---- MODULE Spec2Model ----
(***************************************************************************)
(* Rigid-body store, integrator and hierarchical narrow-phase detector of  *)
(* gabloctica (src/src/physics).                                           *)
(*                                                                         *)
(* f64 values are exact rationals <<n, d>> in lowest terms with d >= 0;    *)
(* d = 0 encodes the non-finite values: <<1,0>> = +inf, <<-1,0>> = -inf,   *)
(* <<0,0>> = NaN.  Signed zeros and rounding are not modelled.             *)
(***************************************************************************)
EXTENDS Integers, Sequences, FiniteSets, TLC

VARIABLES
    bodies,             \* Physics.bodies : Seq(RigidBodyData)
    collision_pairs,    \* Physics.collision_pairs : Seq(<<index, index>>)
    collision_normals,  \* Physics.collision_normals : Seq(Vector3)
    panicked,           \* TRUE once a panic!/unimplemented! has unwound the program
    last,               \* record of the last operation performed (history)
    ticks,              \* number of Physics::update calls made (history)
    adds,               \* number of add_force/add_torque/add_couple calls made (history)
    col,                \* frame of a running Collider::check_collision call
    cmp,                \* arguments and result of a CollisionReport comparison
    call,               \* arguments and result of a call of one function of the program
    object              \* a game Object: its chunks, its collider's chunks, its body's com_pos and moi

vars == <<bodies, collision_pairs, collision_normals, panicked, last, ticks, adds, col, cmp, call, object>>

----------------------------------------------------------------------------
(* f64 arithmetic *)

RECURSIVE GCD(_, _)
GCD(a, b) == IF b = 0 THEN a ELSE GCD(b, a % b)

IAbs(n) == IF n < 0 THEN -n ELSE n
ISign(n) == IF n < 0 THEN -1 ELSE IF n > 0 THEN 1 ELSE 0

\* n/d with d > 0 and g their greatest common divisor
Reduced(n, d, g) == <<n \div g, d \div g>>

RNorm(n, d) ==
    IF d = 0 THEN <<ISign(n), 0>>
    ELSE IF d = 1 THEN <<n, 1>>
    ELSE IF d < 0 THEN Reduced(-n, -d, GCD(IAbs(n), -d))
    ELSE Reduced(n, d, GCD(IAbs(n), d))

R(n) == <<n, 1>>
Frac(n, d) == RNorm(n, d)
NaN == <<0, 0>>
INFINITY == <<1, 0>>
IsNaN(a) == a = NaN
IsFinite(a) == a[2] # 0

RNeg(a) == <<-a[1], a[2]>>

\* a + b for finite a and b over the least common denominator, g the greatest
\* common divisor of the two denominators
AddOver(a, b, g) == RNorm(a[1] * (b[2] \div g) + b[1] * (a[2] \div g), (a[2] \div g) * b[2])

RAdd(a, b) ==
    IF a[2] = 1 /\ b[2] = 1 THEN <<a[1] + b[1], 1>>
    ELSE IF a[2] = 0 \/ b[2] = 0
         THEN IF a = <<0, 0>> \/ b = <<0, 0>> THEN <<0, 0>>
              ELSE IF a[2] = 0 /\ b[2] = 0
                   THEN (IF a[1] = b[1] THEN a ELSE <<0, 0>>)
                   ELSE (IF a[2] = 0 THEN a ELSE b)
         ELSE AddOver(a, b, GCD(a[2], b[2]))

RSub(a, b) == RAdd(a, RNeg(b))

\* a * b for finite a and b, the common factors g1 of a[1], b[2] and g2 of b[1], a[2]
\* cancelled before the products are formed
MulOver(a, b, g1, g2) == <<(a[1] \div g1) * (b[1] \div g2), (a[2] \div g2) * (b[2] \div g1)>>

RMul(a, b) ==
    IF a[2] = 1 /\ b[2] = 1 THEN <<a[1] * b[1], 1>>
    ELSE IF a[2] = 0 \/ b[2] = 0 THEN <<ISign(a[1]) * ISign(b[1]), 0>>
    ELSE MulOver(a, b, GCD(IAbs(a[1]), b[2]), GCD(IAbs(b[1]), a[2]))

RInv(a) ==
    IF a = <<0, 0>> THEN a
    ELSE IF a[1] = 0 THEN <<1, 0>>
    ELSE IF a[2] = 0 THEN <<0, 1>>
    ELSE IF a[1] < 0 THEN <<-a[2], -a[1]>>
    ELSE <<a[2], a[1]>>

RDiv(a, b) == RMul(a, RInv(b))

\* a < b on f64: false when either side is NaN
\* n/d < m/e for n, m >= 0 and d, e > 0, by comparing integer parts and then the
\* reciprocals of the fractional parts, so that no product is formed
RECURSIVE FracLt(_, _, _, _)
FracLt(n, d, m, e) ==
    IF n \div d # m \div e THEN n \div d < m \div e
    ELSE IF m % e = 0 THEN FALSE
    ELSE IF n % d = 0 THEN TRUE
    ELSE FracLt(e, m % e, d, n % d)

RLt(a, b) ==
    IF a = <<0, 0>> \/ b = <<0, 0>> THEN FALSE
    ELSE IF a[2] = 1 /\ b[2] = 1 THEN a[1] < b[1]
    ELSE IF a[2] = 0 \/ b[2] = 0
         THEN IF a[2] = 0 /\ b[2] = 0 THEN a[1] < b[1]
              ELSE IF a[2] = 0 THEN a[1] < 0 ELSE b[1] > 0
         ELSE IF a[1] \div a[2] # b[1] \div b[2] THEN a[1] \div a[2] < b[1] \div b[2]
              ELSE FracLt(a[1] % a[2], a[2], b[1] % b[2], b[2])

RGt(a, b) == RLt(b, a)
REq(a, b) == a # <<0, 0>> /\ a = b
RLe(a, b) == RLt(a, b) \/ REq(a, b)
RGe(a, b) == RLe(b, a)

\* f64::min / f64::max: a NaN operand is ignored
RMin(a, b) == IF a = <<0, 0>> THEN b ELSE IF b = <<0, 0>> THEN a ELSE IF RLt(b, a) THEN b ELSE a
RMax(a, b) == IF a = <<0, 0>> THEN b ELSE IF b = <<0, 0>> THEN a ELSE IF RLt(a, b) THEN b ELSE a
RAbs(a) == <<IAbs(a[1]), a[2]>>

\* the integer part of the square root of n >= 0
ISqrt(n) == CHOOSE k \in 0..46340 : k * k <= n /\ (k = 46340 \/ (k + 1) * (k + 1) > n)
IsSquare(n) == ISqrt(n) * ISqrt(n) = n

\* f64::sqrt: exact on the squares of rationals, and otherwise rounded down to a
\* multiple of 1/64 (to an integer for arguments so large that the scaling overflows)
RSqrt(a) ==
    IF a[1] <= 0 /\ a # <<0, 1>> THEN <<0, 0>>
    ELSE IF a[2] = 0 THEN INFINITY
    ELSE IF IsSquare(a[1]) /\ IsSquare(a[2]) THEN <<ISqrt(a[1]), ISqrt(a[2])>>
    ELSE IF a[1] < 500000 THEN RNorm(ISqrt((a[1] * 4096) \div a[2]), 64)
    ELSE <<ISqrt(a[1] \div a[2]), 1>>

----------------------------------------------------------------------------
(* cgmath Vector3<f64> and Quaternion<f64> *)

Vec3(a, b, c) == [x |-> a, y |-> b, z |-> c]
V(a, b, c) == Vec3(R(a), R(b), R(c))
VZero == V(0, 0, 0)

VAdd(u, v) == Vec3(RAdd(u.x, v.x), RAdd(u.y, v.y), RAdd(u.z, v.z))
VSub(u, v) == Vec3(RSub(u.x, v.x), RSub(u.y, v.y), RSub(u.z, v.z))
VNeg(u) == Vec3(RNeg(u.x), RNeg(u.y), RNeg(u.z))
VScale(u, k) == Vec3(RMul(u.x, k), RMul(u.y, k), RMul(u.z, k))
VDivS(u, k) == Vec3(RDiv(u.x, k), RDiv(u.y, k), RDiv(u.z, k))
Dot(u, v) == RAdd(RAdd(RMul(u.x, v.x), RMul(u.y, v.y)), RMul(u.z, v.z))
Cross(u, v) ==
    Vec3(RSub(RMul(u.y, v.z), RMul(u.z, v.y)),
         RSub(RMul(u.z, v.x), RMul(u.x, v.z)),
         RSub(RMul(u.x, v.y), RMul(u.y, v.x)))
Magnitude2(u) == Dot(u, u)
Magnitude(u) == RSqrt(Magnitude2(u))
VNormalize(u) == VDivS(u, Magnitude(u))
VFinite(u) == IsFinite(u.x) /\ IsFinite(u.y) /\ IsFinite(u.z)

\* Quaternion::new(w, xi, yj, zk)
Quat(w, xi, yj, zk) == [s |-> w, v |-> Vec3(xi, yj, zk)]
Q(w, xi, yj, zk) == Quat(R(w), R(xi), R(yj), R(zk))

\* Quaternion * Vector3
QRot(q, vec) ==
    VAdd(VScale(Cross(q.v, VAdd(Cross(q.v, vec), VScale(vec, q.s))), <<2, 1>>), vec)

QMagnitude2(q) == RAdd(RMul(q.s, q.s), Magnitude2(q.v))
QConjugate(q) == [s |-> q.s, v |-> VNeg(q.v)]
QDivS(q, k) == [s |-> RDiv(q.s, k), v |-> VDivS(q.v, k)]

\* Rotation::invert for Quaternion: conjugate / magnitude2
QInvert(q) == QDivS(QConjugate(q), QMagnitude2(q))

\* Quaternion * Quaternion
QMul(p, q) ==
    [s |-> RSub(RMul(p.s, q.s), Dot(p.v, q.v)),
     v |-> VAdd(VAdd(VScale(q.v, p.s), VScale(p.v, q.s)), Cross(p.v, q.v))]
QScale(q, k) == [s |-> RMul(q.s, k), v |-> VScale(q.v, k)]
QAdd(p, q) == [s |-> RAdd(p.s, q.s), v |-> VAdd(p.v, q.v)]

----------------------------------------------------------------------------
(* collisions/mod.rs: CollisionReport *)

ReportNone == [kind |-> "None"]
ReportSome(n, d, q1, q2) == [kind |-> "Some", normal |-> n, depth |-> d, p1 |-> q1, p2 |-> q2]

is_some(r) == r.kind = "Some"
is_none(r) == ~is_some(r)

\* f64::partial_cmp: None (here "Unordered") when either side is NaN
f64_partial_cmp(a, b) ==
    IF IsNaN(a) \/ IsNaN(b) THEN "Unordered"
    ELSE IF RLt(a, b) THEN "Less"
    ELSE IF RLt(b, a) THEN "Greater"
    ELSE "Equal"

partial_cmp_swapped(self, other) ==
    IF self.kind = "None" /\ other.kind = "None" THEN "Equal"
    ELSE IF self.kind = "None" THEN "Less"
    ELSE IF other.kind = "None" THEN "Greater"
    ELSE f64_partial_cmp(other.depth, self.depth)

\* impl PartialOrd for CollisionReport
partial_cmp(self, other) ==
    IF self.kind = "None" /\ other.kind = "None" THEN "Equal"
    ELSE IF self.kind = "None" THEN "Less"
    ELSE IF other.kind = "None" THEN "Greater"
    ELSE f64_partial_cmp(self.depth, other.depth)

\* CollisionReport::invert is called by the Ray-vs-Box arm but is not defined in
\* the sources; it swaps the roles of the two bodies in the report.
CollisionReport_invert(r) ==
    IF r.kind = "None" THEN r
    ELSE ReportSome(VNeg(r.normal), r.depth, r.p2, r.p1)

----------------------------------------------------------------------------
(* collisions/algo.rs *)

RECURSIVE FoldMin(_, _, _)
FoldMin(s, k, acc) == IF k > Len(s) THEN acc ELSE FoldMin(s, k + 1, RMin(acc, s[k]))
RECURSIVE FoldMax(_, _, _)
FoldMax(s, k, acc) == IF k > Len(s) THEN acc ELSE FoldMax(s, k + 1, RMax(acc, s[k]))
SeqMin(s) == FoldMin(s, 1, s[1])
SeqMax(s) == FoldMax(s, 1, s[1])

SepnNone == [some |-> FALSE]
SepnSome(v) == [some |-> TRUE, sepn |-> v]

\* the four tests of get_sepn on the extremes of the two projections
get_sepn_cases_far(min_a, max_a, min_b, max_b) ==
    IF RLt(min_a, min_b) /\ RGt(max_a, min_b)
    THEN SepnSome(RSub(max_b, min_a))
    ELSE IF RLe(max_a, max_b) /\ RGe(min_a, min_b)
    THEN SepnSome(RMin(RAbs(RSub(max_a, min_b)), RAbs(RSub(min_a, max_b))))
    ELSE IF RLt(min_b, min_a) /\ RGt(max_b, min_a)
    THEN SepnSome(RSub(max_a, min_b))
    ELSE IF RLe(max_b, max_a) /\ RGe(min_b, min_a)
    THEN SepnSome(RMin(RAbs(RSub(max_b, min_a)), RAbs(RSub(min_b, max_a))))
    ELSE SepnNone
get_sepn_cases(min_a, max_a, min_b, max_b) ==
    IF RLt(min_a, min_b) /\ RGt(max_a, min_b)
    THEN SepnSome(RSub(max_a, min_b))
    ELSE IF RLe(max_a, max_b) /\ RGe(min_a, min_b)
    THEN SepnSome(RMin(RAbs(RSub(max_a, min_b)), RAbs(RSub(min_a, max_b))))
    ELSE IF RLt(min_b, min_a) /\ RGt(max_b, min_a)
    THEN SepnSome(RSub(max_b, min_a))
    ELSE IF RLe(max_b, max_a) /\ RGe(min_b, min_a)
    THEN SepnSome(RMin(RAbs(RSub(max_b, min_a)), RAbs(RSub(min_b, max_a))))
    ELSE SepnNone

get_sepn(a, b) == get_sepn_cases(SeqMin(a), SeqMax(a), SeqMin(b), SeqMax(b))

get_normals(ori) ==
    << QRot(ori, V(1, 0, 0)), QRot(ori, V(0, 1, 0)), QRot(ori, V(0, 0, 1)) >>

\* the eight projected corners center_d +- dots[0] +- dots[1] +- dots[2]
get_dots_corners(c, d0, d1, d2) ==
    << RAdd(RAdd(RAdd(c, d0), d1), d2), RSub(RAdd(RAdd(c, d0), d1), d2),
       RAdd(RSub(RAdd(c, d0), d1), d2), RSub(RSub(RAdd(c, d0), d1), d2),
       RAdd(RAdd(RSub(c, d0), d1), d2), RSub(RAdd(RSub(c, d0), d1), d2),
       RAdd(RSub(RSub(c, d0), d1), d2), RSub(RSub(RSub(c, d0), d1), d2) >>

get_dots(normals, sepax, edges, global_center) ==
    get_dots_corners(Dot(global_center, sepax),
                     RMul(Dot(normals[1], sepax), edges.x),
                     RMul(Dot(normals[2], sepax), edges.y),
                     RMul(Dot(normals[3], sepax), edges.z))

\* +-ex +-ey +-ez, the signs read from the bits of the 0-based corner index i
get_normal_signed(i, ex, ey, ez) ==
    VAdd(VAdd(IF i \div 4 = 0 THEN ex ELSE VNeg(ex),
              IF (i \div 2) % 2 = 0 THEN ey ELSE VNeg(ey)),
         IF i % 2 = 0 THEN ez ELSE VNeg(ez))

get_normal_from_i(i, normals, edges) ==
    get_normal_signed(i, VScale(normals[1], edges.x), VScale(normals[2], edges.y),
                      VScale(normals[3], edges.z))

CT_Box(c, e) == [type |-> "Box", center |-> c, edges |-> e]
CT_Ray(p, q, d) == [type |-> "Ray", start |-> p, stop |-> q, dir |-> d]

\* 1e-8, the threshold under which a candidate axis is skipped
EpsDen == 100000000
AxisEps == <<1, EpsDen>>

SepAxes(an, bn) ==
    << an[1], an[2], an[3], bn[1], bn[2], bn[3],
       Cross(an[1], bn[1]), Cross(an[1], bn[2]), Cross(an[1], bn[3]),
       Cross(an[2], bn[1]), Cross(an[2], bn[2]), Cross(an[2], bn[3]),
       Cross(an[3], bn[1]), Cross(an[3], bn[2]), Cross(an[3], bn[3]) >>

\* the loop over the 15 candidate axes; [none |-> TRUE] is the early return.
\* box = <<a_normals, b_normals, edgesa, edgesb, a_global_center, b_global_center>>
RECURSIVE BoxBoxAxes(_, _, _, _, _)
RECURSIVE BoxBoxAxis(_, _, _, _, _, _)

\* the match on get_sepn(&dots_a, &dots_b) for the axis axes[k]
BoxBoxAxis_continue(axes, k, best_sepn, best_sepax, box, s) ==
    IF ~s.some THEN BoxBoxAxes(axes, k + 1, best_sepn, best_sepax, box)
    ELSE IF RLt(s.sepn, best_sepn)
         THEN BoxBoxAxes(axes, k + 1, s.sepn, axes[k], box)
         ELSE BoxBoxAxes(axes, k + 1, best_sepn, best_sepax, box)
BoxBoxAxis(axes, k, best_sepn, best_sepax, box, s) ==
    IF ~s.some THEN [none |-> TRUE]
    ELSE IF RLt(s.sepn, best_sepn)
         THEN BoxBoxAxes(axes, k + 1, s.sepn, axes[k], box)
         ELSE BoxBoxAxes(axes, k + 1, best_sepn, best_sepax, box)

BoxBoxAxes(axes, k, best_sepn, best_sepax, box) ==
    IF k > Len(axes) THEN [none |-> FALSE, sepn |-> best_sepn, sepax |-> best_sepax]
    ELSE IF RLt(Magnitude2(axes[k]), AxisEps)
         THEN BoxBoxAxes(axes, k + 1, best_sepn, best_sepax, box)
         ELSE BoxBoxAxis(axes, k, best_sepn, best_sepax, box,
                         get_sepn(get_dots(box[1], axes[k], box[3], box[5]),
                                  get_dots(box[2], axes[k], box[4], box[6])))

\* corners (0-based) of a box whose projection lies strictly inside (lo, hi)
CornersIn(dots, lo, hi) == {i \in 0..7 : RLt(dots[i + 1], hi) /\ RGt(dots[i + 1], lo)}

RECURSIVE SumCorners(_, _, _, _, _)
SumCorners(i, inside, normals, edges, acc) ==
    IF i > 7 THEN acc
    ELSE SumCorners(i + 1, inside, normals, edges,
                    IF i \in inside THEN VAdd(acc, get_normal_from_i(i, normals, edges)) ELSE acc)

\* p /= n as f64, for the corners of one box that lie inside the other's projection
CornerMean(inside, normals, edges) ==
    VDivS(SumCorners(0, inside, normals, edges, VZero), <<Cardinality(inside), 1>>)

\* the report of the Box-Box arm; p2 is computed by the source but the report
\* is built from p1 on both sides
BoxBoxReport(a, b, best, p1, p2) ==
    ReportSome(IF RLt(Dot(p1, best.sepax), <<0, 1>>) THEN VNeg(best.sepax) ELSE best.sepax,
               best.sepn,
               VAdd(QRot(QInvert(a.ori), p1), a.com_pos),
               VAdd(QRot(QInvert(b.ori), p1), b.com_pos))

BoxBoxCorners(a, b, box, best, dots_a, dots_b) ==
    BoxBoxReport(a, b, best,
                 CornerMean(CornersIn(dots_a, SeqMin(dots_b), SeqMax(dots_b)), box[1], box[3]),
                 CornerMean(CornersIn(dots_b, SeqMin(dots_a), SeqMax(dots_a)), box[2], box[4]))

BoxBoxBest(a, b, box, best) ==
    IF best.none THEN ReportNone
    ELSE BoxBoxCorners(a, b, box, best,
                       get_dots(box[1], best.sepax, box[3], box[5]),
                       get_dots(box[2], best.sepax, box[4], box[6]))

BoxBoxLoop(a, b, box) ==
    BoxBoxBest(a, b, box, BoxBoxAxes(SepAxes(box[1], box[2]), 1, INFINITY, VZero, box))

\* (ColliderType::Box, ColliderType::Box)
BoxBox(ac, bc, a, b) ==
    BoxBoxLoop(a, b,
               << get_normals(a.ori), get_normals(b.ori), ac.edges, bc.edges,
                  VAdd(a.pos, QRot(a.ori, VSub(ac.center, a.com_pos))),
                  VAdd(b.pos, QRot(b.ori, VSub(bc.center, b.com_pos))) >>)

\* the loop over the box's three axes; [none |-> TRUE] is the early return.
\* ray = <<edges, global_center, start, stop, dir>>
RECURSIVE BoxRayAxes(_, _, _, _, _)
RECURSIVE BoxRayAlpha(_, _, _, _, _, _)
RECURSIVE BoxRayAxis(_, _, _, _, _, _)

\* if alpha < best_alpha { best_alpha = alpha; best_sepax = sepax; }
BoxRayAlpha(normals, k, best_alpha, best_sepax, ray, alpha) ==
    IF RLt(alpha, best_alpha)
    THEN BoxRayAxes(normals, k + 1, alpha, normals[k], ray)
    ELSE BoxRayAxes(normals, k + 1, best_alpha, best_sepax, ray)

\* the match on get_sepn(&dots_cube, &dots_ray) for the axis normals[k]
BoxRayAxis(normals, k, best_alpha, best_sepax, ray, s) ==
    IF ~s.some THEN [none |-> TRUE]
    ELSE BoxRayAlpha(normals, k, best_alpha, best_sepax, ray,
                     RDiv(s.sepn, RAbs(Dot(normals[k], ray[5]))))

BoxRayAxes(normals, k, best_alpha, best_sepax, ray) ==
    IF k > 3 THEN [none |-> FALSE, alpha |-> best_alpha, sepax |-> best_sepax]
    ELSE BoxRayAxis(normals, k, best_alpha, best_sepax, ray,
                    get_sepn(get_dots(normals, normals[k], ray[1], ray[2]),
                             << Dot(ray[3], normals[k]), Dot(ray[4], normals[k]) >>))

BoxRayReport(a, b, best, collision_pos) ==
    ReportSome(best.sepax, best.alpha,
               VAdd(QRot(QInvert(a.ori), VSub(collision_pos, a.pos)), a.com_pos),
               VAdd(QRot(QInvert(b.ori), VSub(collision_pos, b.pos)), b.com_pos))

BoxRayBest(bc, a, b, best) ==
    IF best.none THEN ReportNone
    ELSE BoxRayReport(a, b, best, VSub(bc.stop, VScale(bc.dir, best.alpha)))

\* (ColliderType::Box, ColliderType::Ray)
BoxRay(ac, bc, a, b) ==
    BoxRayBest(bc, a, b,
               BoxRayAxes(get_normals(a.ori), 1, INFINITY, VZero,
                          << ac.edges, VAdd(a.pos, QRot(a.ori, VSub(ac.center, a.com_pos))),
                             bc.start, bc.stop, bc.dir >>))

\* ColliderType::check_collision
ColliderType_check_collision(ac, bc, a, b) ==
    IF ac.type = "Box" /\ bc.type = "Box" THEN BoxBox(ac, bc, a, b)
    ELSE IF ac.type = "Box" /\ bc.type = "Ray" THEN BoxRay(ac, bc, a, b)
    ELSE IF ac.type = "Ray" /\ bc.type = "Box" THEN CollisionReport_invert(BoxRay(bc, ac, b, a))
    ELSE ReportNone

----------------------------------------------------------------------------
(* collisions/shapes.rs and enum Collider *)

CHUNK_SIZE == 16

\* Option<Collider>: None, or one of the three variants
NoCollider == [type |-> "NoCollider"]
Collider_Ray(p, d) == [type |-> "Ray", pos |-> p, dir |-> d]
Collider_Box(c, e) == [type |-> "Box", center |-> c, edges |-> e]
\* ObjectData.chunks: chunk coordinate -> [u16; CHUNK_SIZE*CHUNK_SIZE]
Collider_Object(ch) == [type |-> "Object", chunks |-> ch]
empty_object == Collider_Object(<<>>)
new_ray(p, d) == Collider_Ray(p, d)

Pow2(n) == 2 ^ n
\* row & (1 << x) != 0
BitSet(row, x) == (row \div Pow2(x)) % 2 # 0

new_box == [type |-> "BoxIterator"]
new_ray_iter == [type |-> "RayIterator"]
new_object(index) ==
    [type |-> "ObjectIterator", chunk_index |-> index,
     start_x |-> 0, start_y |-> 0, start_z |-> 0,
     width_x |-> CHUNK_SIZE, width_y |-> CHUNK_SIZE, width_z |-> CHUNK_SIZE,
     xyz_index |-> 0]

contains_blocks(it, data) ==
    \E z \in it.start_z .. (it.start_z + it.width_z - 1) :
        \E y \in it.start_y .. (it.start_y + it.width_y - 1) :
            \E x \in it.start_x .. (it.start_x + it.width_x - 1) :
                BitSet(data.chunks[it.chunk_index][y + z * CHUNK_SIZE + 1], x)

Width(it, axis) == IF axis = 0 THEN it.width_x ELSE IF axis = 1 THEN it.width_y ELSE it.width_z

\* xyz_index = (old_xyz_index + 1) % 3 and the width along old_xyz_index halved
Halved_same_axis(it, axis) ==
    IF axis = 0 THEN [it EXCEPT !.xyz_index = axis, !.width_x = @ \div 2]
    ELSE IF axis = 1 THEN [it EXCEPT !.xyz_index = axis, !.width_y = @ \div 2]
    ELSE [it EXCEPT !.xyz_index = axis, !.width_z = @ \div 2]
Halved(it, axis) ==
    IF axis = 0 THEN [it EXCEPT !.xyz_index = (axis + 1) % 3, !.width_x = @ \div 2]
    ELSE IF axis = 1 THEN [it EXCEPT !.xyz_index = (axis + 1) % 3, !.width_y = @ \div 2]
    ELSE [it EXCEPT !.xyz_index = (axis + 1) % 3, !.width_z = @ \div 2]

Shifted_start(it, axis) ==
    IF axis = 0 THEN [it EXCEPT !.start_x = it.width_x]
    ELSE IF axis = 1 THEN [it EXCEPT !.start_y = it.width_y]
    ELSE [it EXCEPT !.start_z = it.width_z]
Shifted(it, axis) ==
    IF axis = 0 THEN [it EXCEPT !.start_x = @ + it.width_x]
    ELSE IF axis = 1 THEN [it EXCEPT !.start_y = @ + it.width_y]
    ELSE [it EXCEPT !.start_z = @ + it.width_z]

\* the two halves, each kept only if it contains blocks
next_halves_lo(lo, hi, data) == IF contains_blocks(lo, data) THEN <<lo>> ELSE <<>>
next_halves(lo, hi, data) ==
    (IF contains_blocks(lo, data) THEN <<lo>> ELSE <<>>)
    \o (IF contains_blocks(hi, data) THEN <<hi>> ELSE <<>>)

\* ColliderIterator::next
next(it, data) ==
    IF it.type = "ObjectIterator"
    THEN IF Width(it, it.xyz_index) = 1 THEN <<>>
         ELSE next_halves(Halved(it, it.xyz_index),
                          Shifted(Halved(it, it.xyz_index), it.xyz_index), data)
    ELSE <<it>>

Unimplemented == [type |-> "unimplemented"]

Half(n) == IF n % 2 = 0 THEN <<n \div 2, 1>> ELSE <<n, 2>>

\* ColliderIterator::collider
ColliderIterator_collider(it, data) ==
    IF it.type = "BoxIterator" THEN Unimplemented
    ELSE IF it.type = "ObjectIterator"
    THEN CT_Box(
            Vec3(RAdd(R(it.chunk_index[1] * CHUNK_SIZE), RAdd(R(it.start_x), Half(it.width_x))),
                 RAdd(R(it.chunk_index[2] * CHUNK_SIZE), RAdd(R(it.start_y), Half(it.width_y))),
                 RAdd(R(it.chunk_index[3] * CHUNK_SIZE), RAdd(R(it.start_z), Half(it.width_z)))),
            Vec3(Half(it.width_x), Half(it.width_y), Half(it.width_z)))
    ELSE CT_Ray(data.pos, VAdd(data.pos, data.dir), VNormalize(data.dir))

is_leaf(it) ==
    IF it.type = "ObjectIterator"
    THEN it.width_x = 1 /\ it.width_y = 1 /\ it.width_z = 1
    ELSE TRUE

\* Collider::iter; keys is the order in which chunks.keys() yields the chunk coordinates
Collider_iter(c, keys) ==
    IF c.type = "Ray" THEN <<new_ray_iter>>
    ELSE IF c.type = "Box" THEN <<new_box>>
    ELSE [k \in 1..Len(keys) |-> new_object(keys[k])]

\* all orders in which a hash map may yield its keys
KeyOrders(S) ==
    {s \in [1..Cardinality(S) -> S] : \A i, j \in 1..Cardinality(S) : i # j => s[i] # s[j]}
KeyOrdersOf(c) == IF c.type = "Object" THEN KeyOrders(DOMAIN c.chunks) ELSE {<<>>}

\* for a in as { for b in bs { col_stack.push((a, b)) } }
PushPairs(stack, as, bs) ==
    stack \o [k \in 1..(Len(as) * Len(bs)) |->
                <<as[((k - 1) \div Len(bs)) + 1], bs[((k - 1) % Len(bs)) + 1]>>]

\* Collider::check_collision up to the loop: the frame holds the locals report and
\* col_stack, and, as history, the node pairs tested, those of them that reported a
\* contact, and the contacts reported at leaf pairs
ColStart_either(a, b, ka, kb) ==
    IF a.collider.type # "NoCollider" \/ b.collider.type # "NoCollider"
    THEN [pc |-> "loop", report |-> ReportNone,
          col_stack |-> PushPairs(<<>>, Collider_iter(a.collider, ka), Collider_iter(b.collider, kb)),
          tested |-> {}, hits |-> {}, leaf_hits |-> {}]
    ELSE [pc |-> "done", report |-> ReportNone, col_stack |-> <<>>,
          tested |-> {}, hits |-> {}, leaf_hits |-> {}]
ColStart(a, b, ka, kb) ==
    IF a.collider.type # "NoCollider" /\ b.collider.type # "NoCollider"
    THEN [pc |-> "loop", report |-> ReportNone,
          col_stack |-> PushPairs(<<>>, Collider_iter(a.collider, ka), Collider_iter(b.collider, kb)),
          tested |-> {}, hits |-> {}, leaf_hits |-> {}]
    ELSE [pc |-> "done", report |-> ReportNone, col_stack |-> <<>>,
          tested |-> {}, hits |-> {}, leaf_hits |-> {}]

Popped_kept(stack) == stack
Popped(stack) == SubSeq(stack, 1, Len(stack) - 1)

ReportGt_flipped(x, y) == partial_cmp(x, y) = "Less"

\* this_report > report
ReportGt(x, y) == partial_cmp(x, y) = "Greater"

\* the body of `if this_report.is_some()` and the fall-through when it is None
ColReport(f, a, b, ai, bi, this_report) ==
    IF is_some(this_report)
    THEN IF is_leaf(ai) /\ is_leaf(bi)
         THEN [f EXCEPT !.col_stack = Popped(@),
                        !.tested = @ \cup {<<ai, bi>>},
                        !.hits = @ \cup {<<ai, bi>>},
                        !.leaf_hits = @ \cup {this_report},
                        !.report = IF ReportGt(this_report, @) THEN this_report ELSE @]
         ELSE [f EXCEPT !.col_stack = PushPairs(Popped(@), next(ai, a.collider), next(bi, b.collider)),
                        !.tested = @ \cup {<<ai, bi>>},
                        !.hits = @ \cup {<<ai, bi>>}]
    ELSE [f EXCEPT !.col_stack = Popped(@), !.tested = @ \cup {<<ai, bi>>}]

\* ai.collider() and bi.collider() are evaluated first; either may hit unimplemented!()
ColPair(f, a, b, ai, bi, act, bct) ==
    IF act = Unimplemented \/ bct = Unimplemented
    THEN [f EXCEPT !.pc = "panic", !.col_stack = Popped(@)]
    ELSE ColReport(f, a, b, ai, bi, ColliderType_check_collision(act, bct, a, b))

\* one iteration of the loop of Collider::check_collision
ColStep(f, a, b) ==
    IF Len(f.col_stack) = 0 THEN [f EXCEPT !.pc = "done"]
    ELSE ColPair(f, a, b, f.col_stack[Len(f.col_stack)][1], f.col_stack[Len(f.col_stack)][2],
                 ColliderIterator_collider(f.col_stack[Len(f.col_stack)][1], a.collider),
                 ColliderIterator_collider(f.col_stack[Len(f.col_stack)][2], b.collider))

RECURSIVE ColRun(_, _, _)
ColRun(f, a, b) == IF f.pc = "loop" THEN ColRun(ColStep(f, a, b), a, b) ELSE f

\* Collider::check_collision as one call: [pc |-> "done" or "panic", report |-> ...]
Collider_check_collision(a, b, ka, kb) == ColRun(ColStart(a, b, ka, kb), a, b)

----------------------------------------------------------------------------
(* rigid_body.rs: MoI *)

\* Matrix3 is column-major: x, y, z are its columns
Mat3(cx, cy, cz) == [x |-> cx, y |-> cy, z |-> cz]
MatMulV(m, v) == VAdd(VAdd(VScale(m.x, v.x), VScale(m.y, v.y)), VScale(m.z, v.z))
MatTranspose(m) ==
    Mat3(Vec3(m.x.x, m.y.x, m.z.x), Vec3(m.x.y, m.y.y, m.z.y), Vec3(m.x.z, m.y.z, m.z.z))
MatDet(m) == Dot(m.x, Cross(m.y, m.z))
\* SquareMatrix::invert: None when the determinant is zero
MatInvertible(m) == MatDet(m) # <<0, 1>>
MatAdjugateOver(m, det) ==
    MatTranspose(Mat3(VDivS(Cross(m.y, m.z), det),
                      VDivS(Cross(m.z, m.x), det),
                      VDivS(Cross(m.x, m.y), det)))
MatInvert(m) == MatAdjugateOver(m, MatDet(m))

new_diagonal(moi) ==
    [type |-> "Diagonal", moi |-> moi,
     reciprocals |-> Vec3(RDiv(RSub(moi.y, moi.z), moi.x),
                          RDiv(RSub(moi.z, moi.x), moi.y),
                          RDiv(RSub(moi.x, moi.y), moi.z))]

\* moi.invert().unwrap() panics on a singular matrix; callers check MatInvertible
new_matrix(moi) == [type |-> "Matrix", moi |-> moi, inverse |-> MatInvert(moi)]

get_self_accel(self, omega) ==
    IF self.type = "Diagonal"
    THEN Vec3(RMul(RMul(omega.y, omega.z), self.reciprocals.x),
              RMul(RMul(omega.z, omega.x), self.reciprocals.y),
              RMul(RMul(omega.x, omega.y), self.reciprocals.z))
    ELSE MatMulV(self.inverse, Cross(omega, MatMulV(self.moi, omega)))

mul(self, v) ==
    IF self.type = "Diagonal"
    THEN Vec3(RMul(v.x, self.moi.x), RMul(v.y, self.moi.y), RMul(v.z, self.moi.z))
    ELSE MatMulV(self.moi, v)

mul_inv(self, v) ==
    IF self.type = "Diagonal"
    THEN Vec3(RDiv(v.x, self.moi.x), RDiv(v.y, self.moi.y), RDiv(v.z, self.moi.z))
    ELSE MatMulV(self.inverse, v)

----------------------------------------------------------------------------
(* rigid_body.rs: RigidBodyInit, RigidBody::new, RigidBodyData *)

\* impl Default for RigidBodyInit
DefaultInit ==
    [pos |-> VZero, com_pos |-> VZero, vel |-> VZero, ori |-> Q(0, 0, 0, 1),
     ang_vel |-> VZero, mass |-> R(1), moi |-> new_diagonal(V(1, 1, 1)),
     static_coeff |-> Frac(1, 2), kinetic_coeff |-> Frac(3, 10),
     collider |-> NoCollider, restitution |-> Frac(7, 10)]

\* the RigidBodyData that RigidBody::new builds from init
NewData(init) ==
    [pos |-> init.pos, com_pos |-> init.com_pos, vel |-> init.vel, ori |-> init.ori,
     ang_vel |-> init.ang_vel, mass |-> init.mass, moi |-> init.moi,
     static_coeff |-> init.static_coeff, kinetic_coeff |-> init.kinetic_coeff,
     collider |-> init.collider, restitution |-> init.restitution,
     forces |-> VZero, torques |-> VZero]

\* the three panic! conditions of RigidBody::new
FrictionOrderPanic(data) == RLt(data.static_coeff, data.kinetic_coeff)
FrictionSignPanic(data) == RLt(data.static_coeff, R(0)) \/ RLt(data.kinetic_coeff, R(0))
MassPanic(data) == RLt(data.mass, R(0))

NewPanics_unordered(data) == FrictionSignPanic(data) \/ MassPanic(data)

NewPanics(data) == FrictionOrderPanic(data) \/ FrictionSignPanic(data) \/ MassPanic(data)

add_force(body, force) == [body EXCEPT !.forces = VAdd(@, force)]
add_torque(body, torque) == [body EXCEPT !.torques = VAdd(@, torque)]
add_couple(body, force, offset) == add_torque(add_force(body, force), Cross(offset, force))

\* Quaternion::normalize returns the normalized value and leaves its receiver
\* untouched; the statement `self.ori.normalize();` drops that value
OriAfterNormalizeStatement(ori) == ori

\* self.ori += 0.5 * vel_quat * self.ori * delta_t
OriStep(ori, ang_vel, delta_t) ==
    QAdd(ori, QScale(QMul(QScale([s |-> R(0), v |-> ang_vel], <<1, 2>>), ori), delta_t))

\* self.vel += ...; self.pos += self.vel * delta_t; and the accumulators as given
Integrated(self, delta_t, ang_vel, vel, forces, torques) ==
    [self EXCEPT !.ang_vel = ang_vel,
                 !.ori = OriAfterNormalizeStatement(OriStep(@, ang_vel, delta_t)),
                 !.vel = vel,
                 !.pos = VAdd(@, VScale(vel, delta_t)),
                 !.forces = forces,
                 !.torques = torques]

RigidBodyData_update_keeps(self, delta_t) ==
    Integrated(self, delta_t,
               VAdd(self.ang_vel, VScale(mul_inv(self.moi, QRot(self.ori, self.torques)), delta_t)),
               VAdd(self.vel, VDivS(VScale(self.forces, delta_t), self.mass)),
               self.forces, self.torques)

\* RigidBodyData::update
RigidBodyData_update(self, delta_t) ==
    Integrated(self, delta_t,
               VAdd(self.ang_vel, VScale(mul_inv(self.moi, QRot(self.ori, self.torques)), delta_t)),
               VAdd(self.vel, VDivS(VScale(self.forces, delta_t), self.mass)),
               VZero, VZero)

----------------------------------------------------------------------------
(* physics/mod.rs: Physics::update.  Body indices are 1-based here. *)

NEWTON_G == 5
GRAVITY_THRESH == 10

\* `if planet.mass < GRAVITY_THRESH {continue;}`
PlanetSkipped(planet) == RLt(planet.mass, R(GRAVITY_THRESH))
\* `if part.mass > GRAVITY_THRESH {continue;}`
PartSkipped(part) == RGt(part.mass, R(GRAVITY_THRESH))

\* x.powi(3)
Cubed(x) == RMul(RMul(x, x), x)

\* -NEWTON_G * planet.mass * part.mass * dist / dist.magnitude().powi(3)
ForceAlong(planet, part, dist) ==
    VDivS(VScale(dist, RMul(RMul(R(-NEWTON_G), planet.mass), part.mass)),
          Cubed(Magnitude(dist)))

GravityForce(planet, part) == ForceAlong(planet, part, VSub(part.pos, planet.pos))

\* st = [bodies, calls]: calls lists the <<i, j>> for which part.add_force ran
RECURSIVE GravityInner(_, _, _)
GravityInner(st, i, j) ==
    IF j > Len(st.bodies) THEN st
    ELSE IF j = i \/ PartSkipped(st.bodies[j]) THEN GravityInner(st, i, j + 1)
    ELSE GravityInner(
            [bodies |-> [st.bodies EXCEPT ![j] = add_force(@, GravityForce(st.bodies[i], @))],
             calls |-> Append(st.calls, <<i, j>>)],
            i, j + 1)

RECURSIVE GravityOuter(_, _)
GravityOuter(st, i) ==
    IF i > Len(st.bodies) THEN st
    ELSE IF PlanetSkipped(st.bodies[i]) THEN GravityOuter(st, i + 1)
    ELSE GravityOuter(GravityInner(st, i, 1), i + 1)

GravityPhase(bs) == GravityOuter([bodies |-> bs, calls |-> <<>>], 1)

\* a.add_force(-impulse / delta_t * normal); b.add_force(impulse / delta_t * normal);
\* a.pos -= normal*depth * (1. - a_mass_frac); b.pos += normal*depth * a_mass_frac
Pushed(a, b, r, delta_t, impulse, a_mass_frac) ==
    << [a EXCEPT !.forces = VAdd(@, VScale(r.normal, RDiv(RNeg(impulse), delta_t))),
                 !.pos = VSub(@, VScale(VScale(r.normal, r.depth), RSub(R(1), a_mass_frac)))],
       [b EXCEPT !.forces = VAdd(@, VScale(r.normal, RDiv(impulse, delta_t))),
                 !.pos = VAdd(@, VScale(VScale(r.normal, r.depth), a_mass_frac))] >>

ContactDenom(a, b, r) ==
    RAdd(RAdd(RAdd(RDiv(R(1), a.mass), RDiv(R(1), b.mass)),
              Dot(Cross(mul_inv(a.moi, Cross(r.p1, r.normal)), r.p1), r.normal)),
         Dot(Cross(mul_inv(b.moi, Cross(r.p2, r.normal)), r.p2), r.normal))

\* the body of `if let CollisionReport::Some {..}`: <<a, b>> after the impulse and
\* the positional correction
ContactResponse(a, b, r, delta_t) ==
    Pushed(a, b, r, delta_t,
           RDiv(RAdd(R(1), RDiv(RAdd(a.restitution, b.restitution), R(2))), ContactDenom(a, b, r)),
           RDiv(a.mass, RAdd(a.mass, b.mass)))

\* one run of the detector, kept as history: the pair and what it returned
Checked(i, j, res) == [a |-> i, b |-> j, report |-> res.report, panic |-> res.pc = "panic"]

\* st = [bodies, pairs, normals, checks, panic]; keys[k] is the order in which body
\* k's chunk map yields its keys
RECURSIVE CollideInner(_, _, _, _, _)
RECURSIVE CollidePair(_, _, _, _, _, _)
RECURSIVE CollideContact(_, _, _, _, _, _, _)

CollideContact_unpaired(st, i, j, delta_t, keys, normal, ab) ==
    CollideInner([st EXCEPT !.bodies = [@ EXCEPT ![i] = ab[1], ![j] = ab[2]],
                            !.normals = Append(@, normal)],
                 i, j + 1, delta_t, keys)
CollideContact(st, i, j, delta_t, keys, normal, ab) ==
    CollideInner([st EXCEPT !.bodies = [@ EXCEPT ![i] = ab[1], ![j] = ab[2]],
                            !.pairs = Append(@, <<i, j>>),
                            !.normals = Append(@, normal)],
                 i, j + 1, delta_t, keys)

CollidePair(st, i, j, delta_t, keys, res) ==
    IF res.pc = "panic" THEN [st EXCEPT !.panic = TRUE, !.checks = Append(@, Checked(i, j, res))]
    ELSE IF is_some(res.report)
    THEN CollideContact([st EXCEPT !.checks = Append(@, Checked(i, j, res))],
                        i, j, delta_t, keys, res.report.normal,
                        ContactResponse(st.bodies[i], st.bodies[j], res.report, delta_t))
    ELSE CollideInner([st EXCEPT !.checks = Append(@, Checked(i, j, res))], i, j + 1, delta_t, keys)

CollideInner(st, i, j, delta_t, keys) ==
    IF j > Len(st.bodies) THEN st
    ELSE CollidePair(st, i, j, delta_t, keys,
                     Collider_check_collision(st.bodies[i], st.bodies[j], keys[i], keys[j]))

RECURSIVE CollideOuter(_, _, _, _)
CollideOuter(st, i, delta_t, keys) ==
    IF st.panic \/ i > Len(st.bodies) THEN st
    ELSE CollideOuter(CollideInner(st, i, i + 1, delta_t, keys), i + 1, delta_t, keys)

\* collision_pairs.clear(); collision_normals.clear(); then the pair loop
CollisionPhase(bs, delta_t, keys) ==
    CollideOuter([bodies |-> bs, pairs |-> <<>>, normals |-> <<>>, checks |-> <<>>,
                  panic |-> FALSE], 1, delta_t, keys)

SelfTorquePhase(bs) ==
    [k \in 1..Len(bs) |-> add_torque(bs[k], get_self_accel(bs[k].moi, bs[k].ang_vel))]

IntegratePhase(bs, delta_t) ==
    [k \in 1..Len(bs) |-> RigidBodyData_update(bs[k], delta_t)]

\* the outcome of one Physics::update call: the store's three fields, whether the
\* call panicked, and as history the gravity calls made, the phases run, in order,
\* and the detector runs of the collision phase
UpdateOutcome(bs, pairs, normals, panic, calls, phases, checks) ==
    [bodies |-> bs, pairs |-> pairs, normals |-> normals, panic |-> panic,
     calls |-> calls, phases |-> phases, checks |-> checks]

\* resolve_normal_forces and resolve_normal_torques are commented out in the source:
\* after the self-torque loop the force updates follow at once
UpdateAfterCollisions(g, c, delta_t) ==
    IF c.panic
    THEN UpdateOutcome(c.bodies, c.pairs, c.normals, TRUE, g.calls, <<"gravity", "collisions">>,
                       c.checks)
    ELSE UpdateOutcome(IntegratePhase(SelfTorquePhase(c.bodies), delta_t), c.pairs, c.normals,
                       FALSE, g.calls, <<"gravity", "collisions", "self_torque", "integrate">>,
                       c.checks)

UpdateAfterGravity(g, delta_t, keys) ==
    UpdateAfterCollisions(g, CollisionPhase(g.bodies, delta_t, keys), delta_t)

\* Physics::update
Physics_update(bs, delta_t, keys) == UpdateAfterGravity(GravityPhase(bs), delta_t, keys)

----------------------------------------------------------------------------
(* inputs *)

ColIdle == [pc |-> "idle", report |-> ReportNone, col_stack |-> <<>>,
            tested |-> {}, hits |-> {}, leaf_hits |-> {}]
CmpIdle == [pc |-> "idle"]
CallIdle == [op |-> "none", pc |-> "idle"]
NoObject == [op |-> "none"]
NoOp == [op |-> "none"]

\* the occupancy rows Chunk::update_metadata writes for a set of occupied voxels
RECURSIVE SumBits(_)
SumBits(xs) == IF xs = {} THEN 0 ELSE LET x == CHOOSE e \in xs : TRUE IN Pow2(x) + SumBits(xs \ {x})
Rows(voxels) ==
    [k \in 1..(CHUNK_SIZE * CHUNK_SIZE) |->
        SumBits({x \in 0..(CHUNK_SIZE - 1) :
                    <<x, (k - 1) % CHUNK_SIZE, (k - 1) \div CHUNK_SIZE>> \in voxels})]

ObjectInit(p, o, chunks) ==
    [DefaultInit EXCEPT !.pos = p, !.ori = o, !.collider = Collider_Object(chunks)]
RayInit(p, d) == [DefaultInit EXCEPT !.collider = new_ray(p, d)]
\* Entity::new; the three equal moments 1e8 of the source are written 100, which
\* keeps the reciprocals at zero and only scales the answer to a torque
EntityInit(p) ==
    [DefaultInit EXCEPT !.pos = p,
        !.collider = Collider_Box(VZero, Vec3(Frac(9, 10), Frac(2, 5), Frac(2, 5))),
        !.moi = new_diagonal(V(100, 100, 100))]

Identity == Q(1, 0, 0, 0)
Origin == <<0, 0, 0>>
VHalf(a, b, c) == Vec3(Frac(a, 2), Frac(b, 2), Frac(c, 2))

CornerVoxel == {<<0, 0, 0>>}
FarVoxel == {<<15, 15, 15>>}
TwoVoxels == {<<0, 0, 0>>, <<1, 0, 0>>}

ColObjects ==
    { ObjectInit(VZero, Identity, Origin :> Rows(CornerVoxel)),
      ObjectInit(VZero, Identity, Origin :> Rows(TwoVoxels)),
      ObjectInit(VZero, Identity, Origin :> Rows(FarVoxel)),
      ObjectInit(VZero, Identity, Origin :> Rows({})),
      ObjectInit(VZero, Identity, <<>>),
      ObjectInit(VHalf(1, 0, 0), Identity, Origin :> Rows(CornerVoxel)),
      ObjectInit(VZero, DefaultInit.ori, Origin :> Rows(CornerVoxel)),
      ObjectInit(VZero, Identity, (Origin :> Rows(CornerVoxel)) @@ (<<1, 0, 0>> :> Rows(CornerVoxel))) }

ColRays ==
    { RayInit(VHalf(-4, 1, 1), V(5, 0, 0)),      \* through voxels (0,0,0)..(2,0,0) along +x
      RayInit(VHalf(6, 1, 1), V(-5, 0, 0)),      \* the same segment, aimed along -x
      RayInit(VHalf(1, 1, -2), V(0, 0, 3)),      \* through voxels (0,0,0)..(0,0,1) along +z
      RayInit(VHalf(1, -4, 1), V(0, 3, 0)),      \* from outside into voxel (0,0,0) along +y
      RayInit(Vec3(Frac(1, 4), Frac(1, 2), Frac(3, 2)), VHalf(1, 0, 0)),  \* inside voxel (0,0,1)
      RayInit(VHalf(24, 31, 31), V(5, 0, 0)),    \* through voxel (15,15,15) along +x
      RayInit(V(-5, -5, -5), V(1, 0, 0)),        \* outside the chunk
      RayInit(VHalf(2, 1, 1), V(2, 0, 0)) }      \* starts on the face x = 1 of voxel (0,0,0)

ColOthers == { EntityInit(VZero), DefaultInit }

ColInits == ColObjects \cup ColRays \cup ColOthers

----------------------------------------------------------------------------
(* Collider::check_collision, one loop iteration per step *)

InitColl ==
    /\ \E ia \in ColInits, ib \in ColInits :
          /\ ~NewPanics(NewData(ia)) /\ ~NewPanics(NewData(ib))
          /\ bodies = <<NewData(ia), NewData(ib)>>
    /\ collision_pairs = <<>>
    /\ collision_normals = <<>>
    /\ panicked = FALSE
    /\ last = NoOp
    /\ ticks = 0
    /\ adds = 0
    /\ col = ColIdle
    /\ cmp = CmpIdle
    /\ call = CallIdle
    /\ object = NoObject

\* Collider::check_collision(&bodies[i], &bodies[j]) is entered
CheckCollisionCall(i, j) ==
    /\ ~panicked
    /\ col.pc = "idle"
    /\ \E ka \in KeyOrdersOf(bodies[i].collider), kb \in KeyOrdersOf(bodies[j].collider) :
          col' = ColStart(bodies[i], bodies[j], ka, kb)
    /\ last' = [op |-> "check_collision", a |-> i, b |-> j]
    /\ UNCHANGED <<bodies, collision_pairs, collision_normals, panicked, ticks, adds, cmp, call, object>>

\* one iteration of its loop: pop a pair, test it, keep or narrow
CheckCollisionLoop ==
    /\ ~panicked
    /\ col.pc = "loop"
    /\ col' = ColStep(col, bodies[last.a], bodies[last.b])
    /\ panicked' = (col'.pc = "panic")
    /\ UNCHANGED <<bodies, collision_pairs, collision_normals, last, ticks, adds, cmp, call, object>>

NextColl ==
    \/ \E i, j \in 1..2 : i # j /\ CheckCollisionCall(i, j)
    \/ CheckCollisionLoop

SpecColl == InitColl /\ [][NextColl]_vars

----------------------------------------------------------------------------
(* impl PartialOrd for CollisionReport, applied to a pair of reports *)

\* the depths of the specification's example, 0.1, 0.2 and 0.5, and a NaN
CmpDepths == {Frac(1, 10), Frac(1, 5), Frac(1, 2), NaN}
CmpNormals == {V(1, 0, 0), V(0, 0, -1)}
CmpPoints == {VZero, VHalf(1, 1, 1)}
CmpReports ==
    {ReportNone} \cup
    {ReportSome(n, d, q, q) : n \in CmpNormals, d \in CmpDepths, q \in CmpPoints}

InitCmp ==
    /\ bodies = <<>>
    /\ collision_pairs = <<>>
    /\ collision_normals = <<>>
    /\ panicked = FALSE
    /\ last = NoOp
    /\ ticks = 0
    /\ adds = 0
    /\ col = ColIdle
    /\ call = CallIdle
    /\ object = NoObject
    /\ \E x \in CmpReports, y \in CmpReports : cmp = [pc |-> "args", self |-> x, other |-> y]

\* self.partial_cmp(&other)
Compare ==
    /\ cmp.pc = "args"
    /\ cmp' = [pc |-> "done", self |-> cmp.self, other |-> cmp.other,
               result |-> partial_cmp(cmp.self, cmp.other)]
    /\ UNCHANGED <<bodies, collision_pairs, collision_normals, panicked, last, ticks, adds, col, call, object>>

NextCmp == Compare

SpecCmp == InitCmp /\ [][NextCmp]_vars

----------------------------------------------------------------------------
(* the store: RigidBody::new, add_force, add_torque, add_couple, Physics::update *)

MaxBodies == 2
MaxTicks == 2
MaxAdds == 1

AtMass(init, m) == [init EXCEPT !.mass = m]
AtPos(init, p) == [init EXCEPT !.pos = p]

\* the inits offered to RigidBody::new
PhysInits ==
    { DefaultInit,
      AtPos(AtMass(DefaultInit, R(GRAVITY_THRESH)), V(5, 0, 0)),
      AtPos(AtMass(DefaultInit, R(GRAVITY_THRESH)), V(-5, 0, 0)),
      AtPos(AtMass(DefaultInit, R(2 * GRAVITY_THRESH)), V(10, 0, 0)),
      AtMass(DefaultInit, R(0)),
      AtMass(DefaultInit, R(-1)),
      [DefaultInit EXCEPT !.static_coeff = Frac(1, 5)],
      [DefaultInit EXCEPT !.kinetic_coeff = Frac(-1, 10)],
      [DefaultInit EXCEPT !.static_coeff = Frac(-1, 10), !.kinetic_coeff = Frac(-1, 5)],
      [DefaultInit EXCEPT !.moi = new_diagonal(V(0, 1, 1))],
      ObjectInit(VZero, Identity, Origin :> Rows(TwoVoxels)),
      RayInit(VHalf(-4, 1, 1), V(5, 0, 0)),
      EntityInit(VZero) }

DeltaTs == {R(1), R(2)}
Forces == {V(10, 0, 0)}
Torques == {V(0, 0, 1)}
Offsets == {Vec3(R(0), Frac(1, 10), R(0))}

\* Physics::new
InitPhys ==
    /\ bodies = <<>>
    /\ collision_pairs = <<>>
    /\ collision_normals = <<>>
    /\ panicked = FALSE
    /\ last = NoOp
    /\ ticks = 0
    /\ adds = 0
    /\ col = ColIdle
    /\ cmp = CmpIdle
    /\ call = CallIdle
    /\ object = NoObject

\* RigidBody::new(physics, init): the three checks, then physics.bodies.push(data)
New(init) ==
    /\ ~panicked
    /\ Len(bodies) < MaxBodies
    /\ IF NewPanics(NewData(init))
       THEN panicked' = TRUE /\ bodies' = bodies
       ELSE panicked' = FALSE /\ bodies' = Append(bodies, NewData(init))
    /\ last' = [op |-> "new", init |-> init, index |-> Len(bodies)]
    /\ UNCHANGED <<collision_pairs, collision_normals, ticks, adds, col, cmp, call, object>>

AddForce(k, force) ==
    /\ ~panicked
    /\ adds < MaxAdds
    /\ bodies' = [bodies EXCEPT ![k] = add_force(@, force)]
    /\ adds' = adds + 1
    /\ last' = [op |-> "add_force", body |-> k]
    /\ UNCHANGED <<collision_pairs, collision_normals, panicked, ticks, col, cmp, call, object>>

AddTorque(k, torque) ==
    /\ ~panicked
    /\ adds < MaxAdds
    /\ bodies' = [bodies EXCEPT ![k] = add_torque(@, torque)]
    /\ adds' = adds + 1
    /\ last' = [op |-> "add_torque", body |-> k]
    /\ UNCHANGED <<collision_pairs, collision_normals, panicked, ticks, col, cmp, call, object>>

AddCouple(k, force, offset) ==
    /\ ~panicked
    /\ adds < MaxAdds
    /\ bodies' = [bodies EXCEPT ![k] = add_couple(@, force, offset)]
    /\ adds' = adds + 1
    /\ last' = [op |-> "add_couple", body |-> k]
    /\ UNCHANGED <<collision_pairs, collision_normals, panicked, ticks, col, cmp, call, object>>

\* the orders in which the chunk maps of the bodies may yield their keys
KeyChoices(bs) ==
    {ks \in [1..Len(bs) -> UNION {KeyOrdersOf(bs[k].collider) : k \in 1..Len(bs)}] :
        \A k \in 1..Len(bs) : ks[k] \in KeyOrdersOf(bs[k].collider)}

\* the store and the history after a Physics::update call with outcome r
Updated(delta_t, r) ==
    /\ bodies' = r.bodies
    /\ collision_pairs' = r.pairs
    /\ collision_normals' = r.normals
    /\ panicked' = r.panic
    /\ last' = [op |-> "update", delta_t |-> delta_t, calls |-> r.calls, phases |-> r.phases,
                 checks |-> r.checks]

Update(delta_t) ==
    /\ ~panicked
    /\ ticks < MaxTicks
    /\ \E keys \in KeyChoices(bodies) : Updated(delta_t, Physics_update(bodies, delta_t, keys))
    /\ ticks' = ticks + 1
    /\ UNCHANGED <<adds, col, cmp, call, object>>

NextPhys ==
    \/ \E init \in PhysInits : New(init)
    \/ \E k \in 1..Len(bodies), f \in Forces : AddForce(k, f)
    \/ \E k \in 1..Len(bodies), t \in Torques : AddTorque(k, t)
    \/ \E k \in 1..Len(bodies), f \in Forces, o \in Offsets : AddCouple(k, f, o)
    \/ \E dt \in DeltaTs : Update(dt)

SpecPhys == InitPhys /\ [][NextPhys]_vars

----------------------------------------------------------------------------
(* the narrowing tree of an Object collider, read back from a node *)

IsRoot(it) ==
    it.type # "ObjectIterator"
    \/ (it.width_x = CHUNK_SIZE /\ it.width_y = CHUNK_SIZE /\ it.width_z = CHUNK_SIZE)

\* the node whose next() yields it: the axis split last, its width doubled and its
\* start aligned to the doubled width
Unsplit(it, axis) ==
    IF axis = 0 THEN [it EXCEPT !.xyz_index = axis, !.width_x = 2 * @,
                                !.start_x = @ - (@ % (2 * it.width_x))]
    ELSE IF axis = 1 THEN [it EXCEPT !.xyz_index = axis, !.width_y = 2 * @,
                                     !.start_y = @ - (@ % (2 * it.width_y))]
    ELSE [it EXCEPT !.xyz_index = axis, !.width_z = 2 * @,
                    !.start_z = @ - (@ % (2 * it.width_z))]

ParentNode(it) == IF IsRoot(it) THEN it ELSE Unsplit(it, (it.xyz_index + 2) % 3)

\* the occupied voxels <<chunk, x, y, z>> of an Object collider
OccupiedVoxels(c) ==
    UNION { UNION { { <<key, x, (r - 1) % CHUNK_SIZE, (r - 1) \div CHUNK_SIZE>> :
                        x \in {x \in 0..(CHUNK_SIZE - 1) : BitSet(c.chunks[key][r], x)} } :
                    r \in {r \in 1..(CHUNK_SIZE * CHUNK_SIZE) : c.chunks[key][r] # 0} } :
            key \in DOMAIN c.chunks }

VoxelNode(v) ==
    [type |-> "ObjectIterator", chunk_index |-> v[1],
     start_x |-> v[2], start_y |-> v[3], start_z |-> v[4],
     width_x |-> 1, width_y |-> 1, width_z |-> 1, xyz_index |-> 0]

\* the leaves of a collider's narrowing tree
Leaves(c) ==
    IF c.type = "Object" THEN {VoxelNode(v) : v \in OccupiedVoxels(c)}
    ELSE IF c.type = "Ray" THEN {new_ray_iter}
    ELSE {}

\* the narrow-phase test applied to one leaf of each body
LeafContact(a, b, na, nb) ==
    is_some(ColliderType_check_collision(ColliderIterator_collider(na, a.collider),
                                         ColliderIterator_collider(nb, b.collider), a, b))

SomeVoxelTouches(a, b) ==
    \E na \in Leaves(a.collider), nb \in Leaves(b.collider) : LeafContact(a, b, na, nb)

\* a finished check_collision call of an Object against a Ray or another Object
ObjectCallDone ==
    /\ col.pc = "done"
    /\ last.op = "check_collision"
    /\ bodies[last.a].collider.type = "Object"
    /\ bodies[last.b].collider.type \in {"Ray", "Object"}

LeafTested == \E p \in col.tested : is_leaf(p[1]) /\ is_leaf(p[2])

----------------------------------------------------------------------------
(* claims *)

\* C1: Collider::check_collision never panics, whatever the collider variants of
\* the two bodies and whatever node the traversal reaches.
C1_CheckCollisionTotal == col.pc # "panic"

\* C2: every Physics::update that returns has run gravity, collisions, self-torque
\* and integration in this order, and in a tick that recorded at least one contact
\* the simultaneous contact solve has run between self-torque and integration.
C2_SolveBeforeIntegrate ==
    (last.op = "update" /\ ~panicked) =>
        IF collision_pairs = <<>>
        THEN last.phases \in {<<"gravity", "collisions", "self_torque", "integrate">>,
                              <<"gravity", "collisions", "self_torque", "contact_solve", "integrate">>}
        ELSE last.phases = <<"gravity", "collisions", "self_torque", "contact_solve", "integrate">>

\* C3: RigidBody::new panics for every init with mass <= 0, mass 0 included, and
\* then appends no body.
C3_NonPositiveMassFails ==
    (last.op = "new" /\ RLe(last.init.mass, R(0))) => (panicked /\ Len(bodies) = last.index)

\* C4: RigidBody::new panics for every init whose Diagonal MoI has a component
\* <= 0, and no body with such an inertia is in the store.
NonPositiveMoment(moi) ==
    moi.type = "Diagonal" /\ (RLe(moi.moi.x, R(0)) \/ RLe(moi.moi.y, R(0)) \/ RLe(moi.moi.z, R(0)))
C4_NonPositiveInertiaFails ==
    /\ (last.op = "new" /\ NonPositiveMoment(last.init.moi)) => (panicked /\ Len(bodies) = last.index)
    /\ \A k \in 1..Len(bodies) : ~NonPositiveMoment(bodies[k].moi)

\* C5: RigidBody::new panics whenever static_coeff < kinetic_coeff or a friction
\* coefficient is negative, leaving the body list as it was; every body in the
\* store has static_coeff >= kinetic_coeff >= 0.
BadFriction(init) ==
    RLt(init.static_coeff, init.kinetic_coeff)
    \/ RLt(init.static_coeff, R(0)) \/ RLt(init.kinetic_coeff, R(0))
C5_FrictionChecked ==
    [][ /\ (last'.op = "new" /\ BadFriction(last'.init)) => (panicked' /\ bodies' = bodies)
        /\ \A k \in 1..Len(bodies') :
              /\ RGe(bodies'[k].static_coeff, bodies'[k].kinetic_coeff)
              /\ RGe(bodies'[k].kinetic_coeff, R(0)) ]_vars
C5_Witness ==
    /\ last.op = "new" /\ panicked /\ Len(bodies) = 1
    /\ RLt(last.init.static_coeff, last.init.kinetic_coeff)
    /\ RGe(last.init.kinetic_coeff, R(0))

\* C6: after every Physics::update that returns, the force and torque accumulators
\* of every body are zero; and a tick that follows another tick directly, and in
\* which no gravity force and no contact arises, integrates a zero force: no force
\* added before the earlier tick reaches the velocity again.
C6_AccumulatorsReset ==
    [][ (last'.op = "update" /\ ~panicked') =>
          /\ \A k \in 1..Len(bodies') :
                bodies'[k].forces = VZero /\ bodies'[k].torques = VZero
          /\ (last.op = "update" /\ last'.calls = <<>> /\ collision_pairs' = <<>>) =>
                \A k \in 1..Len(bodies') :
                    bodies'[k].vel = VAdd(bodies[k].vel,
                                          VDivS(VScale(VZero, last'.delta_t), bodies[k].mass)) ]_vars
C6_Witness ==
    /\ last.op = "update" /\ ~panicked /\ ticks = 2 /\ adds = 1
    /\ last.calls = <<>> /\ collision_pairs = <<>>
    /\ \E k \in 1..Len(bodies) :
          bodies[k].vel = V(10, 0, 0) /\ bodies[k].pos = V(20, 0, 0) /\ bodies[k].forces = VZero

\* C7: in the gravity phase body j receives a force from body i exactly when the
\* mass of i exceeds GRAVITY_THRESH and the mass of j does not; so bodies on the
\* same side of the threshold, two bodies of mass GRAVITY_THRESH included, never
\* attract each other.
C7_GravityRule ==
    last.op = "update" =>
        \A i, j \in 1..Len(bodies) :
            i # j =>
                ((\E n \in 1..Len(last.calls) : last.calls[n] = <<i, j>>)
                 <=> (RGt(bodies[i].mass, R(GRAVITY_THRESH))
                      /\ ~RGt(bodies[j].mass, R(GRAVITY_THRESH))))

\* C8: None = None, None < Some, Some > None, and two Some reports compare as
\* their depths do, whatever their normals and contact points; so 0.1 < 0.2 < 0.5.
C8_ReportOrder ==
    cmp.pc = "done" =>
        IF is_none(cmp.self) /\ is_none(cmp.other) THEN cmp.result = "Equal"
        ELSE IF is_none(cmp.self) THEN cmp.result = "Less"
        ELSE IF is_none(cmp.other) THEN cmp.result = "Greater"
        ELSE /\ RLt(cmp.self.depth, cmp.other.depth) <=> cmp.result = "Less"
             /\ RGt(cmp.self.depth, cmp.other.depth) <=> cmp.result = "Greater"
             /\ REq(cmp.self.depth, cmp.other.depth) <=> cmp.result = "Equal"
C8_Witness ==
    /\ cmp.pc = "done" /\ is_some(cmp.self) /\ is_some(cmp.other)
    /\ cmp.self.depth = Frac(1, 5) /\ cmp.other.depth = Frac(1, 2)
    /\ cmp.self.normal # cmp.other.normal /\ cmp.self.p1 # cmp.other.p1
    /\ cmp.result = "Less"

\* C9: the report of check_collision is a greatest one, in the CollisionReport
\* order, of the contacts reported at leaf pairs, and None when no leaf pair
\* reported one; a contact reported at another pair is never the result.
C9_DeepestLeafContact ==
    IF col.leaf_hits = {} THEN col.report = ReportNone
    ELSE /\ col.report \in col.leaf_hits
         /\ \A h \in col.leaf_hits : partial_cmp(h, col.report) # "Greater"
C9_Witness ==
    /\ col.pc = "done"
    /\ \E h \in col.leaf_hits : partial_cmp(col.report, h) = "Greater"
    /\ \E p \in col.hits : ~(is_leaf(p[1]) /\ is_leaf(p[2]))

ChunkOccupied(c, key) == \E r \in 1..(CHUNK_SIZE * CHUNK_SIZE) : c.chunks[key][r] # 0

\* the node is no Object node, or it lies in a chunk with an occupied voxel
NodeOfOccupiedChunk(it, c) ==
    it.type = "ObjectIterator" => ChunkOccupied(c, it.chunk_index)

\* C11: check_collision creates a narrowing iterator, and runs a box test, only for
\* chunks of an Object collider that hold at least one occupied voxel; a chunk whose
\* occupancy rows are all zero is never on the stack and never tested.
C11_EmptyChunkNeverVisited ==
    last.op = "check_collision" =>
        /\ \A p \in col.tested :
              /\ NodeOfOccupiedChunk(p[1], bodies[last.a].collider)
              /\ NodeOfOccupiedChunk(p[2], bodies[last.b].collider)
        /\ \A k \in 1..Len(col.col_stack) :
              /\ NodeOfOccupiedChunk(col.col_stack[k][1], bodies[last.a].collider)
              /\ NodeOfOccupiedChunk(col.col_stack[k][2], bodies[last.b].collider)

\* C19: a check_collision call in which either body has no collider has returned
\* None at once: no pair was pushed and no shape test was run, whatever the other
\* body's collider is.
C19_NoColliderGivesNone ==
    (/\ last.op = "check_collision"
     /\ \/ bodies[last.a].collider.type = "NoCollider"
        \/ bodies[last.b].collider.type = "NoCollider") =>
        /\ col.pc = "done"
        /\ col.report = ReportNone
        /\ col.col_stack = <<>>
        /\ col.tested = {}

\* a finished call of a body without collider against a Box, an Object and a Ray
C19_Witness ==
    /\ last.op = "check_collision"
    /\ col.pc = "done"
    /\ \/ /\ bodies[last.a].collider.type = "NoCollider"
          /\ bodies[last.b].collider.type \in {"Box", "Object", "Ray"}
       \/ /\ bodies[last.b].collider.type = "NoCollider"
          /\ bodies[last.a].collider.type \in {"Box", "Object", "Ray"}

\* the collider a side of the stacked pairs narrows: 1 is the first body's
SideData(side) == bodies[IF side = 1 THEN last.a ELSE last.b].collider

\* start + extent <= CHUNK_SIZE on each axis
InChunk(it) ==
    /\ it.start_x >= 0 /\ it.start_x + it.width_x <= CHUNK_SIZE
    /\ it.start_y >= 0 /\ it.start_y + it.width_y <= CHUNK_SIZE
    /\ it.start_z >= 0 /\ it.start_z + it.width_z <= CHUNK_SIZE
LargestOnSplitAxis(it) == \A axis \in 0..2 : Width(it, it.xyz_index) >= Width(it, axis)
EmptyRoot(it, data) == IsRoot(it) /\ ~contains_blocks(it, data)

\* what C29 says of one Object node
NodeInvariant(it, data) ==
    /\ InChunk(it)
    /\ LargestOnSplitAxis(it)
    /\ next(it, data) = <<>> => (is_leaf(it) \/ EmptyRoot(it, data))
    /\ (~is_leaf(it) /\ ~IsRoot(it)) => Len(next(it, data)) >= 1

SameExtents(ai, bi) ==
    ai.width_x = bi.width_x /\ ai.width_y = bi.width_y /\ ai.width_z = bi.width_z

\* C29: every Object node on the work stack of check_collision (a root, or a child
\* next() returned) has its sub-box inside the chunk and its largest extent on the
\* axis it splits next; next() gives it no child only if it is a leaf or the root of
\* an all-empty chunk, and at least one child if it is neither leaf nor root; and
\* the two nodes of a stacked Object-Object pair have equal extents, so that one
\* is a leaf exactly when the other is.
C29_StackedNodesWellFormed ==
    \A k \in 1..Len(col.col_stack) :
        /\ \A side \in 1..2 :
              col.col_stack[k][side].type = "ObjectIterator"
                  => NodeInvariant(col.col_stack[k][side], SideData(side))
        /\ (col.col_stack[k][1].type = "ObjectIterator" /\ col.col_stack[k][2].type = "ObjectIterator")
              => /\ SameExtents(col.col_stack[k][1], col.col_stack[k][2])
                 /\ is_leaf(col.col_stack[k][1]) <=> is_leaf(col.col_stack[k][2])

\* an Object-Object traversal that has narrowed to a pair of leaves, with a pair of
\* nodes that are neither roots nor leaves, off the chunk's origin, still stacked
C29_Witness ==
    /\ col.pc = "loop"
    /\ \E k \in 1..Len(col.col_stack) :
          /\ col.col_stack[k][1].type = "ObjectIterator" /\ col.col_stack[k][2].type = "ObjectIterator"
          /\ is_leaf(col.col_stack[k][1])
    /\ \E k \in 1..Len(col.col_stack) :
          /\ col.col_stack[k][1].type = "ObjectIterator" /\ col.col_stack[k][2].type = "ObjectIterator"
          /\ ~IsRoot(col.col_stack[k][1]) /\ ~is_leaf(col.col_stack[k][1])

\* the number of bisections that lead from the chunk root to a node
RECURSIVE Bisections(_)
Bisections(it) == IF IsRoot(it) THEN 0 ELSE 1 + Bisections(ParentNode(it))
\* the voxels of a node's sub-box; a Ray has none
Volume(it) == IF it.type = "ObjectIterator" THEN it.width_x * it.width_y * it.width_z ELSE 0
PairVolume(p) == Volume(p[1]) + Volume(p[2])
RECURSIVE Log2(_)
Log2(n) == IF n <= 1 THEN 0 ELSE 1 + Log2(n \div 2)
\* the bisections from a chunk root to a single voxel: log2(CHUNK_SIZE) on each axis
LeafDepth == 3 * Log2(CHUNK_SIZE)

\* one loop iteration: the pairs pushed are smaller than the pair popped, each Object
\* node pushed is a child of the node popped, and two leaves push nothing
PushesShrink ==
    col.pc = "loop" /\ Len(col.col_stack) > 0 =>
        /\ Len(col'.col_stack) >= Len(col.col_stack) - 1
        /\ SubSeq(col'.col_stack, 1, Len(col.col_stack) - 1)
              = SubSeq(col.col_stack, 1, Len(col.col_stack) - 1)
        /\ \A k \in Len(col.col_stack)..Len(col'.col_stack) :
              /\ PairVolume(col'.col_stack[k]) < PairVolume(col.col_stack[Len(col.col_stack)])
              /\ \A side \in 1..2 :
                    col'.col_stack[k][side].type = "ObjectIterator" =>
                        /\ ParentNode(col'.col_stack[k][side]) = col.col_stack[Len(col.col_stack)][side]
                        /\ 2 * Volume(col'.col_stack[k][side])
                              = Volume(col.col_stack[Len(col.col_stack)][side])
        /\ (is_leaf(col.col_stack[Len(col.col_stack)][1]) /\ is_leaf(col.col_stack[Len(col.col_stack)][2]))
              => Len(col'.col_stack) = Len(col.col_stack) - 1

\* a stacked Object node is a leaf exactly when 12 bisections lead to it
LeafAtDepth ==
    \A k \in 1..Len(col.col_stack) : \A side \in 1..2 :
        col.col_stack[k][side].type = "ObjectIterator" =>
            /\ Bisections(col.col_stack[k][side]) <= LeafDepth
            /\ is_leaf(col.col_stack[k][side]) <=> Bisections(col.col_stack[k][side]) = LeafDepth

\* the loop has been left: check_collision returned with an empty stack, or a
\* collider() call in it panicked
CallEnded == (col.pc = "done" /\ col.col_stack = <<>>) \/ col.pc = "panic"

\* The narrowing of check_collision for every outcome of the shape test: the loop
\* of Collider::check_collision with next(), is_leaf() and the stack as in the
\* code, and this_report drawn from both a contact and None, which covers whatever
\* ColliderType::check_collision returns for the pair popped.
ShapeTestOutcomes == {ReportNone, ReportSome(V(1, 0, 0), R(1), VZero, VZero)}

\* the body of `if this_report.is_some()`, given what ai.next() and bi.next() return
NarrowReport(f, ai, bi, this_report, a_children, b_children) ==
    IF is_some(this_report)
    THEN IF is_leaf(ai) /\ is_leaf(bi)
         THEN [f EXCEPT !.col_stack = Popped(@),
                        !.report = IF ReportGt(this_report, @) THEN this_report ELSE @]
         ELSE [f EXCEPT !.col_stack = PushPairs(Popped(@), a_children, b_children)]
    ELSE [f EXCEPT !.col_stack = Popped(@)]

\* ColliderIterator::collider reaches unimplemented!() for a BoxIterator
ColliderPanics(it) == it.type = "BoxIterator"

\* ai.collider() and bi.collider() come first; either may hit unimplemented!()
NarrowPair(f, ai, bi, this_report, a_children, b_children) ==
    IF ColliderPanics(ai) \/ ColliderPanics(bi)
    THEN [f EXCEPT !.pc = "panic", !.col_stack = Popped(@)]
    ELSE NarrowReport(f, ai, bi, this_report, a_children, b_children)

\* one iteration of the loop on the pair on top of the stack
NarrowLoop ==
    /\ ~panicked
    /\ col.pc = "loop"
    /\ IF Len(col.col_stack) = 0
       THEN col' = [col EXCEPT !.pc = "done"]
       ELSE \E this_report \in ShapeTestOutcomes,
               ai \in {col.col_stack[Len(col.col_stack)][1]},
               bi \in {col.col_stack[Len(col.col_stack)][2]} :
              \E a_children \in {next(ai, bodies[last.a].collider)},
                 b_children \in {next(bi, bodies[last.b].collider)} :
                  col' = NarrowPair(col, ai, bi, this_report, a_children, b_children)
    /\ panicked' = (col'.pc = "panic")
    /\ UNCHANGED <<bodies, collision_pairs, collision_normals, last, ticks, adds, cmp, call, object>>

NarrowObjects ==
    { ObjectInit(VZero, Identity, Origin :> Rows(CornerVoxel)),
      ObjectInit(VZero, Identity, Origin :> Rows({<<0, 0, 0>>, <<0, 0, 1>>})),
      ObjectInit(VZero, Identity, Origin :> Rows({})),
      ObjectInit(VZero, Identity, <<>>),
      ObjectInit(VZero, Identity, (Origin :> Rows(FarVoxel)) @@ (<<1, 0, 0>> :> Rows(CornerVoxel))) }
NarrowInits ==
    NarrowObjects \cup {RayInit(VHalf(-4, 1, 1), V(5, 0, 0)), EntityInit(VZero), DefaultInit}

InitNarrow ==
    /\ \E ia \in NarrowInits, ib \in NarrowInits : bodies = <<NewData(ia), NewData(ib)>>
    /\ collision_pairs = <<>>
    /\ collision_normals = <<>>
    /\ panicked = FALSE
    /\ last = NoOp
    /\ ticks = 0
    /\ adds = 0
    /\ col = ColIdle
    /\ cmp = CmpIdle
    /\ call = CallIdle
    /\ object = NoObject

NextNarrow ==
    \/ \E i, j \in 1..2 : i # j /\ CheckCollisionCall(i, j)
    \/ NarrowLoop

\* the loop keeps running while the call has not returned
SpecNarrow == InitNarrow /\ [][NextNarrow]_vars /\ WF_vars(NarrowLoop)

\* C30: check_collision terminates: every pair a loop iteration pushes has a strictly
\* smaller Object sub-box than the pair popped, a pair of two leaves pushes nothing,
\* an Object node is a leaf exactly after 12 bisections from its chunk root, and every
\* call that has entered the loop leaves it, with the stack empty when it returns.
C30_CheckCollisionTerminates ==
    /\ [][PushesShrink]_vars
    /\ []LeafAtDepth
    /\ (col.pc = "loop") ~> CallEnded

\* a contact has been recorded at a pair of leaves and another pair of leaves, 12
\* bisections below the chunk roots, is on top of the stack
C30_Witness ==
    /\ col.pc = "loop"
    /\ is_some(col.report)
    /\ Len(col.col_stack) > 0
    /\ col.col_stack[Len(col.col_stack)][1].type = "ObjectIterator"
    /\ is_leaf(col.col_stack[Len(col.col_stack)][1])
    /\ Bisections(col.col_stack[Len(col.col_stack)][1]) = LeafDepth

\* a call that narrowed an Object against an Object has returned with a contact
C30_WitnessReturned ==
    /\ col.pc = "done"
    /\ col.col_stack = <<>>
    /\ is_some(col.report)
    /\ bodies[last.a].collider.type = "Object"
    /\ bodies[last.b].collider.type = "Object"

----------------------------------------------------------------------------
(* calls of single functions on drawn arguments *)

\* a body whose axes are the coordinate axes
FnBody(p) == NewData([DefaultInit EXCEPT !.ori = Identity, !.pos = p])

FnCall(op, args) == [op |-> op, pc |-> "args", args |-> args, result |-> "none"]
FnDone(result) == [op |-> call.op, pc |-> "done", args |-> call.args, result |-> result]

BoxEdgesA == {V(1, 1, 1), Vec3(R(2), R(1), Frac(1, 2)), V(3, 3, 3)}
BoxEdgesB == {V(1, 1, 1), Vec3(Frac(1, 2), Frac(1, 2), R(2)), VHalf(1, 1, 1)}
BoxCoords == {R(0), R(1), R(-1), Frac(5, 2), R(-3)}

\* ColliderType::check_collision on two axis-aligned boxes
BoxBoxCalls ==
    { FnCall("box_box", [ac |-> CT_Box(VZero, ea), bc |-> CT_Box(Vec3(cx, cy, cz), eb),
                         a |-> FnBody(VZero), b |-> FnBody(VZero)]) :
        ea \in BoxEdgesA, eb \in BoxEdgesB, cx \in BoxCoords, cy \in BoxCoords, cz \in BoxCoords }

BoxBoxCheck ==
    /\ call.op = "box_box" /\ call.pc = "args"
    /\ call' = FnDone(ColliderType_check_collision(call.args.ac, call.args.bc,
                                                   call.args.a, call.args.b))
    /\ UNCHANGED <<bodies, collision_pairs, collision_normals, panicked, last, ticks, adds, col, cmp, object>>

\* the interval an axis-aligned box covers on coordinate axis ax (1 = x, 2 = y, 3 = z)
Coord(v, ax) == IF ax = 1 THEN v.x ELSE IF ax = 2 THEN v.y ELSE v.z
BoxLo(body, ct, ax) == RSub(RAdd(Coord(body.pos, ax), Coord(ct.center, ax)), Coord(ct.edges, ax))
BoxHi(body, ct, ax) == RAdd(RAdd(Coord(body.pos, ax), Coord(ct.center, ax)), Coord(ct.edges, ax))
ALo(ax) == BoxLo(call.args.a, call.args.ac, ax)
AHi(ax) == BoxHi(call.args.a, call.args.ac, ax)
BLo(ax) == BoxLo(call.args.b, call.args.bc, ax)
BHi(ax) == BoxHi(call.args.b, call.args.bc, ax)
Gap(ax) == RLt(AHi(ax), BLo(ax)) \/ RLt(BHi(ax), ALo(ax))
Overlap(ax) == RLt(ALo(ax), BHi(ax)) /\ RLt(BLo(ax), AHi(ax))
\* how far the two intervals reach into each other
Penetration(ax) == RMin(RSub(AHi(ax), BLo(ax)), RSub(BHi(ax), ALo(ax)))
Parallel(n, ax) ==
    /\ Coord(n, ax) # R(0)
    /\ \A o \in 1..3 : o # ax => Coord(n, o) = R(0)

BoxBoxDone == call.op = "box_box" /\ call.pc = "done"

\* C12: two axis-aligned boxes whose projections onto some coordinate axis are
\* separated by a gap give None, whatever their extents and positions on the
\* other two axes.
C12_GapGivesNone ==
    (BoxBoxDone /\ \E ax \in 1..3 : Gap(ax)) => call.result = ReportNone
C12_Witness ==
    /\ BoxBoxDone
    /\ Gap(3) /\ Overlap(1) /\ Overlap(2)
    /\ call.args.ac.edges # call.args.bc.edges
    /\ call.result = ReportNone

\* C13: two axis-aligned boxes that overlap on all three coordinate axes give a
\* contact whose normal is parallel to a coordinate axis of smallest overlap and
\* whose depth is the overlap of the two intervals on that axis, also when one
\* interval contains the other.
C13_DepthIsSmallestOverlap ==
    (BoxBoxDone /\ \A ax \in 1..3 : Overlap(ax)) =>
        /\ is_some(call.result)
        /\ \E ax \in 1..3 :
              /\ \A o \in 1..3 : RLe(Penetration(ax), Penetration(o))
              /\ Parallel(call.result.normal, ax)
              /\ call.result.depth = Penetration(ax)

C13_Witness ==
    /\ BoxBoxDone /\ is_some(call.result)
    /\ \A ax \in 1..3 : Overlap(ax)
    /\ RLt(ALo(1), BLo(1)) /\ RLt(BHi(1), AHi(1))
    /\ RLt(Penetration(1), Penetration(2)) /\ RLt(Penetration(1), Penetration(3))
    /\ RLt(RSub(BHi(1), ALo(1)), RSub(AHi(1), BLo(1)))
    /\ Parallel(call.result.normal, 1)
    /\ call.result.depth = Penetration(1)

\* the unit vector of coordinate axis ax, scaled by k
AxisVec(ax, k) == Vec3(IF ax = 1 THEN k ELSE R(0), IF ax = 2 THEN k ELSE R(0), IF ax = 3 THEN k ELSE R(0))
\* a point beside the axis ax, at offset off on the two other axes
Beside(ax, off) == Vec3(IF ax = 1 THEN R(0) ELSE off, IF ax = 2 THEN R(0) ELSE off, IF ax = 3 THEN R(0) ELSE off)

UnitBox == CT_Box(VZero, VHalf(1, 1, 1))
RayDists == {Frac(1, 2), Frac(3, 2), Frac(5, 2)}
RayLens == {R(1), R(2), R(3), R(5)}
RayOffsets == {R(0), Frac(1, 4)}

\* a ray that starts at distance dist in front of a face of the unit box, on the
\* side sgn of axis ax, and runs len towards that face
RayAtFace(ax, sgn, dist, len, off) ==
    new_ray(VAdd(AxisVec(ax, RMul(R(sgn), RAdd(Frac(1, 2), dist))), Beside(ax, off)),
            AxisVec(ax, RMul(R(-sgn), len)))

\* ColliderType::check_collision on the unit box and a ray aimed at one of its faces
BoxRayCalls ==
    { FnCall("box_ray", [ac |-> UnitBox,
                         bc |-> ColliderIterator_collider(new_ray_iter, RayAtFace(ax, sgn, dist, len, off)),
                         a |-> FnBody(VZero), b |-> FnBody(VZero),
                         dist |-> dist, len |-> len]) :
        ax \in 1..3, sgn \in {1, -1}, dist \in RayDists, len \in RayLens, off \in RayOffsets }

BoxRayCheck ==
    /\ call.op = "box_ray" /\ call.pc = "args"
    /\ call' = FnDone(ColliderType_check_collision(call.args.ac, call.args.bc,
                                                   call.args.a, call.args.b))
    /\ UNCHANGED <<bodies, collision_pairs, collision_normals, panicked, last, ticks, adds, col, cmp, object>>

\* C14: a ray that starts outside the box, is aimed along a box axis straight at a
\* face and reaches the box gives a contact whose depth is the distance from the
\* ray origin to that face, whatever its length and wherever it ends.
C14_DepthIsDistanceToFace ==
    (call.op = "box_ray" /\ call.pc = "done" /\ RGt(call.args.len, call.args.dist)) =>
        /\ is_some(call.result)
        /\ call.result.depth = call.args.dist

\* the hit position of a reported Box-vs-Ray contact: stop - dir * depth
HitPosition == VSub(call.args.bc.stop, VScale(call.args.bc.dir, call.result.depth))
\* p lies on the surface of the box of half-edges e about the origin
OnBoxSurface(p, e) ==
    /\ RLe(RAbs(p.x), e.x) /\ RLe(RAbs(p.y), e.y) /\ RLe(RAbs(p.z), e.z)
    /\ (RAbs(p.x) = e.x \/ RAbs(p.y) = e.y \/ RAbs(p.z) = e.z)

\* C28: whenever the Box-vs-Ray arm reports a contact, the depth lies between 0 and
\* the length of the segment, and the hit position stop - dir * depth lies on the
\* surface of the box, for rays that end inside the box and rays that pass through it.
C28_HitOnSegmentAndSurface ==
    (call.op = "box_ray" /\ call.pc = "done" /\ is_some(call.result)) =>
        /\ RGe(call.result.depth, R(0))
        /\ RLe(call.result.depth, call.args.len)
        /\ OnBoxSurface(HitPosition, call.args.ac.edges)

\* Matrix3 with the components of d on its diagonal
DiagMat(d) == Mat3(Vec3(d.x, R(0), R(0)), Vec3(R(0), d.y, R(0)), Vec3(R(0), R(0), d.z))

Moments == {V(1, 1, 1), V(1, 2, 3), V(2, 1, 1)}
Omegas == {VZero, V(1, 0, 0), V(1, 1, 0), V(1, 2, 3), V(0, 1, -1)}
MoIVectors == {V(1, 0, 0), V(1, 2, 3)}

\* the three methods of MoI on both variants built from the same principal moments
MoICalls ==
    { FnCall("moi", [diagonal |-> new_diagonal(d), matrix |-> new_matrix(DiagMat(d)),
                     omega |-> w, v |-> v]) :
        d \in Moments, w \in Omegas, v \in MoIVectors }

MoICheck ==
    /\ call.op = "moi" /\ call.pc = "args"
    /\ call' = FnDone([diagonal |-> [self_accel |-> get_self_accel(call.args.diagonal, call.args.omega),
                                     mul |-> mul(call.args.diagonal, call.args.v),
                                     mul_inv |-> mul_inv(call.args.diagonal, call.args.v)],
                       matrix |-> [self_accel |-> get_self_accel(call.args.matrix, call.args.omega),
                                   mul |-> mul(call.args.matrix, call.args.v),
                                   mul_inv |-> mul_inv(call.args.matrix, call.args.v)]])
    /\ UNCHANGED <<bodies, collision_pairs, collision_normals, panicked, last, ticks, adds, col, cmp, object>>

\* C15: the Diagonal and the Matrix variant built from the same principal moments
\* agree: get_self_accel gives the same vector for every angular velocity, and so
\* do mul and mul_inv for every vector.
C15_VariantsAgree ==
    (call.op = "moi" /\ call.pc = "done") => call.result.diagonal = call.result.matrix

SeqRange(s) == {s[i] : i \in 1..Len(s)}

\* the nodes the narrowing of a chunk can hand to next(): a root and, in turn, the
\* children next() returns
RECURSIVE NodesUnder(_, _)
NodesUnder(it, data) ==
    {it} \cup UNION {NodesUnder(c, data) : c \in SeqRange(next(it, data))}

ClusterVoxels == {<<0, 0, 0>>, <<15, 0, 0>>, <<7, 8, 3>>, <<7, 9, 3>>, <<7, 8, 12>>}
NextDatas ==
    { Collider_Object(Origin :> Rows(CornerVoxel)),
      Collider_Object(Origin :> Rows(TwoVoxels)),
      Collider_Object(Origin :> Rows(FarVoxel)),
      Collider_Object(Origin :> Rows(ClusterVoxels)),
      Collider_Object(Origin :> Rows({})) }
NextCalls ==
    UNION { {FnCall("next", [it |-> it, data |-> data]) : it \in NodesUnder(new_object(Origin), data)} :
            data \in NextDatas }

\* ai.next() on a node of an Object collider
NextCheck ==
    /\ call.op = "next" /\ call.pc = "args"
    /\ call' = FnDone(next(call.args.it, call.args.data))
    /\ UNCHANGED <<bodies, collision_pairs, collision_normals, panicked, last, ticks, adds, col, cmp, object>>

ChunkVoxels == (0..(CHUNK_SIZE - 1)) \X (0..(CHUNK_SIZE - 1)) \X (0..(CHUNK_SIZE - 1))
StartOf(it, axis) == IF axis = 0 THEN it.start_x ELSE IF axis = 1 THEN it.start_y ELSE it.start_z
\* the voxel <<x, y, z>> lies in the node's sub-box
InNode(it, v) ==
    /\ v[1] \in it.start_x .. (it.start_x + it.width_x - 1)
    /\ v[2] \in it.start_y .. (it.start_y + it.width_y - 1)
    /\ v[3] \in it.start_z .. (it.start_z + it.width_z - 1)
\* the two halves of the node's sub-box, bisected across its split axis
InLowHalf(it, v) ==
    InNode(it, v) /\ v[it.xyz_index + 1] < StartOf(it, it.xyz_index) + Width(it, it.xyz_index) \div 2
InHighHalf(it, v) ==
    InNode(it, v) /\ v[it.xyz_index + 1] >= StartOf(it, it.xyz_index) + Width(it, it.xyz_index) \div 2
VoxelOccupied(data, it, v) ==
    BitSet(data.chunks[it.chunk_index][v[2] + v[3] * CHUNK_SIZE + 1], v[1])
IsLowHalf(c, it) == \A v \in ChunkVoxels : InNode(c, v) <=> InLowHalf(it, v)
IsHighHalf(c, it) == \A v \in ChunkVoxels : InNode(c, v) <=> InHighHalf(it, v)

NextDone ==
    /\ call.op = "next" /\ call.pc = "done"
    /\ Width(call.args.it, call.args.it.xyz_index) > 1

\* C20: next() on an Object node wider than 1 along its split axis returns exactly
\* the non-empty halves of the node: every child is the lower or the upper half of
\* the parent's sub-box across the parent's split axis, in the same chunk, with the
\* next axis of the cycle x, y, z as its split axis; the children are disjoint; a
\* half is returned if and only if it holds an occupied voxel; and every occupied
\* voxel of the parent lies in a child.
C20_NextGivesNonEmptyHalves ==
    NextDone =>
        /\ \A n \in 1..Len(call.result) :
              /\ call.result[n].type = "ObjectIterator"
              /\ call.result[n].chunk_index = call.args.it.chunk_index
              /\ call.result[n].xyz_index = (call.args.it.xyz_index + 1) % 3
              /\ IsLowHalf(call.result[n], call.args.it) \/ IsHighHalf(call.result[n], call.args.it)
        /\ \A m, n \in 1..Len(call.result) :
              m # n => \A v \in ChunkVoxels : ~(InNode(call.result[m], v) /\ InNode(call.result[n], v))
        /\ (\E n \in 1..Len(call.result) : IsLowHalf(call.result[n], call.args.it))
              <=> \E v \in ChunkVoxels : InLowHalf(call.args.it, v) /\ VoxelOccupied(call.args.data, call.args.it, v)
        /\ (\E n \in 1..Len(call.result) : IsHighHalf(call.result[n], call.args.it))
              <=> \E v \in ChunkVoxels : InHighHalf(call.args.it, v) /\ VoxelOccupied(call.args.data, call.args.it, v)
        /\ \A v \in ChunkVoxels :
              (InNode(call.args.it, v) /\ VoxelOccupied(call.args.data, call.args.it, v))
                  => \E n \in 1..Len(call.result) : InNode(call.result[n], v)

\* a node below the root, split across y or z, of which both halves were returned
C20_Witness ==
    /\ NextDone
    /\ call.args.it.xyz_index # 0
    /\ call.args.it.start_x + call.args.it.start_y + call.args.it.start_z > 0
    /\ Len(call.result) = 2

\* the projections of the two boxes of a finished Box-Box call onto the axis reported
GlobalCenter(body, ct) == VAdd(body.pos, QRot(body.ori, VSub(ct.center, body.com_pos)))
ReportedDotsA ==
    get_dots(get_normals(call.args.a.ori), call.result.normal, call.args.ac.edges,
             GlobalCenter(call.args.a, call.args.ac))
ReportedDotsB ==
    get_dots(get_normals(call.args.b.ori), call.result.normal, call.args.bc.edges,
             GlobalCenter(call.args.b, call.args.bc))
\* the corners of each box that lie within the other box's projected interval
CornersOfA == CornersIn(ReportedDotsA, SeqMin(ReportedDotsB), SeqMax(ReportedDotsB))
CornersOfB == CornersIn(ReportedDotsB, SeqMin(ReportedDotsA), SeqMax(ReportedDotsA))
InBodyFrame(body, p) == VAdd(QRot(QInvert(body.ori), p), body.com_pos)

\* C23: in a Box-Box contact report p1 is the mean of box A's corners that lie
\* within box B's projected interval, in A's body frame, and p2 is the mean of box
\* B's corners that lie within box A's projected interval, in B's body frame.
C23_ContactPointsPerBox ==
    (BoxBoxDone /\ is_some(call.result)) =>
        /\ call.result.p1 =
              InBodyFrame(call.args.a,
                          CornerMean(CornersOfA, get_normals(call.args.a.ori), call.args.ac.edges))
        /\ call.result.p2 =
              InBodyFrame(call.args.b,
                          CornerMean(CornersOfB, get_normals(call.args.b.ori), call.args.bc.edges))

\* C27: whenever the Box-Box arm reports a contact, each box has a corner whose
\* projection onto the chosen axis lies strictly inside the other box's projected
\* interval: both corner counts, the divisors of the two means, are non-zero.
C27_CornerCountsNonZero ==
    (BoxBoxDone /\ is_some(call.result)) =>
        /\ CornersOfA # {}
        /\ CornersOfB # {}

\* the eight projections of a box whose axis lies along the separating axis
BoxDots(c, e) ==
    << RAdd(c, e), RAdd(c, e), RAdd(c, e), RAdd(c, e), RSub(c, e), RSub(c, e), RSub(c, e), RSub(c, e) >>
\* the projections of a ray's two endpoints
RayDots(start, stop) == << start, stop >>
SepnCentres == {R(-4), R(-2), Frac(-1, 2), R(0), R(1), R(3)}
SepnExtents == {Frac(1, 2), R(1), R(3)}
SepnEnds == {R(-4), R(-1), R(0), R(2), R(4)}
SepnArgs ==
    { BoxDots(c, e) : c \in SepnCentres, e \in SepnExtents }
        \cup { RayDots(st, sp) : st \in SepnEnds, sp \in SepnEnds }
\* get_sepn(&dots_a, &dots_b) and get_sepn(&dots_cube, &dots_ray): a is a box
SepnCalls ==
    { FnCall("get_sepn", [a |-> BoxDots(R(0), e), b |-> b]) : e \in {R(1), R(3)}, b \in SepnArgs }

\* the call and, for comparison, the call with its arguments swapped
SepnCheck ==
    /\ call.op = "get_sepn" /\ call.pc = "args"
    /\ call' = FnDone([ab |-> get_sepn(call.args.a, call.args.b),
                       ba |-> get_sepn(call.args.b, call.args.a)])
    /\ UNCHANGED <<bodies, collision_pairs, collision_normals, panicked, last, ticks, adds, col, cmp, object>>

SepnDone == call.op = "get_sepn" /\ call.pc = "done"
\* [min a, max a] and [min b, max b] have no point in common
Disjoint(a, b) == RLt(SeqMax(a), SeqMin(b)) \/ RLt(SeqMax(b), SeqMin(a))
\* min(max_a - min_b, max_b - min_a)
SmallestShift(a, b) == RMin(RSub(SeqMax(a), SeqMin(b)), RSub(SeqMax(b), SeqMin(a)))

\* C24: get_sepn(a, b) is None exactly when the intervals [min a, max a] and
\* [min b, max b] do not overlap; otherwise it is Some(sepn) with sepn the smallest
\* shift that separates them, min(max_a - min_b, max_b - min_a); and the value is
\* the same with the two arguments swapped.
C24_SepnIsSmallestShift ==
    SepnDone =>
        /\ ~call.result.ab.some <=> Disjoint(call.args.a, call.args.b)
        /\ call.result.ab.some => call.result.ab.sepn = SmallestShift(call.args.a, call.args.b)
        /\ call.result.ab = call.result.ba

\* the rotation about z with cosine -7/25 and sine 24/25, as a unit quaternion
RotZ == Quat(Frac(3, 5), R(0), R(0), Frac(4, 5))
ContactMasses == {R(1), R(3)}
\* pairs of bodies handed to the detector and, on contact, to the response
ContactPairs ==
    { <<ObjectInit(VZero, Identity, Origin :> Rows(TwoVoxels)), RayInit(VHalf(-4, 1, 1), V(5, 0, 0))>>,
      <<ObjectInit(VZero, Identity, Origin :> Rows(TwoVoxels)), RayInit(VHalf(1, 1, -2), V(0, 0, 3))>>,
      <<ObjectInit(VZero, Identity, Origin :> Rows(CornerVoxel)),
        ObjectInit(Vec3(Frac(1, 2), Frac(1, 4), R(0)), Identity, Origin :> Rows(CornerVoxel))>>,
      <<ObjectInit(VZero, Identity, Origin :> Rows(CornerVoxel)),
        ObjectInit(Vec3(R(0), R(0), Frac(-3, 4)), Identity, Origin :> Rows(CornerVoxel))>>,
      <<ObjectInit(VZero, Identity, Origin :> Rows(CornerVoxel)),
        ObjectInit(Vec3(R(1), R(0), Frac(1, 2)), RotZ, Origin :> Rows(CornerVoxel))>>,
      <<ObjectInit(VZero, Identity, Origin :> Rows(CornerVoxel)),
        ObjectInit(V(3, 0, 0), Identity, Origin :> Rows(CornerVoxel))>> }
ContactCalls ==
    { FnCall("contact", [a |-> NewData(AtMass(p[1], ma)), b |-> NewData(AtMass(p[2], mb)),
                         delta_t |-> dt]) :
        p \in ContactPairs, ma \in ContactMasses, mb \in ContactMasses, dt \in DeltaTs }

\* the body of the pair loop of Physics::update for one pair: the report and the
\* two bodies after it
ContactResult(a, b, delta_t, res) ==
    [report |-> res.report,
     ab |-> IF is_some(res.report) THEN ContactResponse(a, b, res.report, delta_t) ELSE <<a, b>>]

ContactCheck ==
    /\ call.op = "contact" /\ call.pc = "args"
    /\ \E ka \in KeyOrdersOf(call.args.a.collider), kb \in KeyOrdersOf(call.args.b.collider) :
          call' = FnDone(ContactResult(call.args.a, call.args.b, call.args.delta_t,
                                       Collider_check_collision(call.args.a, call.args.b, ka, kb)))
    /\ UNCHANGED <<bodies, collision_pairs, collision_normals, panicked, last, ticks, adds, col, cmp, object>>

ContactDone == call.op = "contact" /\ call.pc = "done" /\ is_some(call.result.report)
\* d * m / (mA + mB)
Share(d, m, ma, mb) == RDiv(RMul(d, m), RAdd(ma, mb))

\* C22: on a contact with normal n and depth d, A is moved by d*mB/(mA+mB) against
\* n and B by d*mA/(mA+mB) along n; the separation of the two bodies along n grows
\* by exactly d; and the body of the smaller mass moves the larger share.
C22_PushedApartByDepth ==
    ContactDone =>
        /\ call.result.ab[1].pos =
              VSub(call.args.a.pos,
                   VScale(call.result.report.normal,
                          Share(call.result.report.depth, call.args.b.mass,
                                call.args.a.mass, call.args.b.mass)))
        /\ call.result.ab[2].pos =
              VAdd(call.args.b.pos,
                   VScale(call.result.report.normal,
                          Share(call.result.report.depth, call.args.a.mass,
                                call.args.a.mass, call.args.b.mass)))
        /\ RSub(Dot(VSub(call.result.ab[2].pos, call.result.ab[1].pos), call.result.report.normal),
                Dot(VSub(call.args.b.pos, call.args.a.pos), call.result.report.normal))
              = call.result.report.depth
        /\ RLt(call.args.a.mass, call.args.b.mass) =>
              RGt(Magnitude2(VSub(call.result.ab[1].pos, call.args.a.pos)),
                  Magnitude2(VSub(call.result.ab[2].pos, call.args.b.pos)))
        /\ RLt(call.args.b.mass, call.args.a.mass) =>
              RGt(Magnitude2(VSub(call.result.ab[2].pos, call.args.b.pos)),
                  Magnitude2(VSub(call.result.ab[1].pos, call.args.a.pos)))

FnCalls ==
    BoxBoxCalls \cup BoxRayCalls \cup MoICalls \cup NextCalls \cup ContactCalls \cup SepnCalls

InitFn ==
    /\ bodies = <<>>
    /\ collision_pairs = <<>>
    /\ collision_normals = <<>>
    /\ panicked = FALSE
    /\ last = NoOp
    /\ ticks = 0
    /\ adds = 0
    /\ col = ColIdle
    /\ cmp = CmpIdle
    /\ call \in FnCalls
    /\ object = NoObject

NextFn ==
    \/ BoxBoxCheck
    \/ BoxRayCheck
    \/ MoICheck
    \/ NextCheck
    \/ ContactCheck
    \/ SepnCheck

SpecFn == InitFn /\ [][NextFn]_vars

----------------------------------------------------------------------------
(* claims on the integration step *)

\* C16: the orientation quaternion stored in every body has unit norm after every
\* integration step; the norm does not grow over ticks with angular velocity.
C16_UnitOrientation ==
    \A k \in 1..Len(bodies) : QMagnitude2(bodies[k].ori) = R(1)

\* C17: in a tick of a run without any add_force, add_torque or add_couple call,
\* in which no gravity force and no contact arises, every body keeps its linear
\* momentum mass * vel, and its position advances by vel * delta_t.
C17_MomentumKept ==
    [][ (last'.op = "update" /\ ~panicked' /\ adds' = 0
         /\ last'.calls = <<>> /\ collision_pairs' = <<>>) =>
            \A k \in 1..Len(bodies') :
                /\ VScale(bodies'[k].vel, bodies[k].mass) = VScale(bodies[k].vel, bodies[k].mass)
                /\ bodies'[k].pos = VAdd(bodies[k].pos, VScale(bodies[k].vel, last'.delta_t)) ]_vars

----------------------------------------------------------------------------
(* game/object: Chunk and Object *)

MatZero == Mat3(VZero, VZero, VZero)
MatAdd(a, b) == Mat3(VAdd(a.x, b.x), VAdd(a.y, b.y), VAdd(a.z, b.z))
MatSub(a, b) == Mat3(VSub(a.x, b.x), VSub(a.y, b.y), VSub(a.z, b.z))
MatScale(m, k) == Mat3(VScale(m.x, k), VScale(m.y, k), VScale(m.z, k))
MatDivS(m, k) == Mat3(VDivS(m.x, k), VDivS(m.y, k), VDivS(m.z, k))

\* the literal 0.1666666666 of update_chunk_info, written as the sixth it truncates
Sixth == Frac(1, 6)

\* a chunk's grid is the set of its blocks of non-zero type, in chunk coordinates;
\* exposed is 0xff until update_chunk_info has set it
Chunk_empty ==
    [grid |-> {}, mass_m0 |-> R(0), mass_m1 |-> VZero, mass_m2 |-> MatZero,
     detail |-> 1, exposed |-> 255]

\* the moments one block of block_mass 1 at (x, y, z) adds to its chunk
BlockMoments(b) ==
    [mass_m0 |-> R(1),
     mass_m1 |-> V(b[1], b[2], b[3]),
     mass_m2 |-> Mat3(V(b[1] * b[1], b[1] * b[2], b[1] * b[3]),
                      V(b[2] * b[1], b[2] * b[2], b[2] * b[3]),
                      V(b[3] * b[1], b[3] * b[2], b[3] * b[3]))]
NoMoments == [mass_m0 |-> R(0), mass_m1 |-> VZero, mass_m2 |-> MatZero]
AddMoments(acc, m) ==
    [mass_m0 |-> RAdd(acc.mass_m0, m.mass_m0),
     mass_m1 |-> VAdd(acc.mass_m1, m.mass_m1),
     mass_m2 |-> MatAdd(acc.mass_m2, m.mass_m2)]

RECURSIVE GridMoments(_)
GridMoments(grid) ==
    IF grid = {} THEN NoMoments
    ELSE AddMoments(GridMoments(grid \ {CHOOSE b \in grid : TRUE}),
                    BlockMoments(CHOOSE b \in grid : TRUE))

\* Chunk::update_metadata: the chunk with its three moments recomputed from its grid
\* (the rows it writes into the collider are Rows(chunk.grid))
update_metadata(chunk) ==
    [chunk EXCEPT !.mass_m0 = GridMoments(chunk.grid).mass_m0,
                  !.mass_m1 = GridMoments(chunk.grid).mass_m1,
                  !.mass_m2 = GridMoments(chunk.grid).mass_m2]

\* the accumulators mass_m0, mass_m1, mass_m2 after the loop over coord_vec
RECURSIVE SumNamed(_, _, _)
SumNamed(chunks, coord_vec, n) ==
    IF n = 0 THEN NoMoments
    ELSE AddMoments(SumNamed(chunks, coord_vec, n - 1), chunks[coord_vec[n]])

\* the accumulators after the loop over every chunk of the map
RECURSIVE SumAll(_, _)
SumAll(chunks, keys) ==
    IF keys = {} THEN NoMoments
    ELSE AddMoments(SumAll(chunks, keys \ {CHOOSE k \in keys : TRUE}),
                    chunks[CHOOSE k \in keys : TRUE])

\* mass_m1 * mass_m1^T with 0.1666666666 taken off its diagonal
OuterLessSixth(m1) ==
    Mat3(Vec3(RSub(RMul(m1.x, m1.x), Sixth), RMul(m1.x, m1.y), RMul(m1.x, m1.z)),
         Vec3(RMul(m1.y, m1.x), RSub(RMul(m1.y, m1.y), Sixth), RMul(m1.y, m1.z)),
         Vec3(RMul(m1.z, m1.x), RMul(m1.z, m1.y), RSub(RMul(m1.z, m1.z), Sixth)))

\* "Set the rigid body data": com_pos and moi from the three accumulators
BodyOfMoments(sum) ==
    [com_pos |-> VDivS(sum.mass_m1, sum.mass_m0),
     moi |-> new_matrix(MatScale(MatSub(MatDivS(sum.mass_m2, sum.mass_m0),
                                        OuterLessSixth(VDivS(sum.mass_m1, sum.mass_m0))),
                                 sum.mass_m0))]

\* the chunks update_chunk_info works on: all of them for an empty coord_vec
Named(chunks, coord_vec) == IF coord_vec = <<>> THEN DOMAIN chunks ELSE SeqRange(coord_vec)

\* Chunk::update_exposed and the loop after it. The grids of this model have no
\* full face, so every flush bit is set and new_exposed is 0
WithExposed(chunk) == [chunk EXCEPT !.exposed = 0]

\* the chunks after the update_metadata calls and the exposure loop
UpdatedChunks(chunks, coord_vec) ==
    [k \in DOMAIN chunks |->
        IF k \in Named(chunks, coord_vec)
        THEN WithExposed(update_metadata(chunks[k])) ELSE chunks[k]]

UpdatedSum(chunks, coord_vec) ==
    IF coord_vec = <<>> THEN SumAll(chunks, DOMAIN chunks)
    ELSE SumNamed(chunks, coord_vec, Len(coord_vec))

\* CubeGrid::update_model panics for detail 0: 2u32.pow(detail as u32 - 1) overflows,
\* or wraps to detail_skip = 0 and reaches panic!
ModelPanics(chunk) == chunk.detail = 0

\* update_chunk_info does not return: an unwrap of a chunk or of its collider rows
\* fails, or a chunk whose exposure changes is handed to update_model with detail 0
UnwrapFails(o, coord_vec) ==
    \E k \in Named(o.chunks, coord_vec) : k \notin DOMAIN o.chunks \/ k \notin DOMAIN o.collider

UpdatePanics(o, coord_vec) ==
    IF UnwrapFails(o, coord_vec) THEN "unwrap"
    ELSE IF \E k \in Named(o.chunks, coord_vec) :
                o.chunks[k].exposed # 0 /\ ModelPanics(o.chunks[k])
         THEN "update_model"
         ELSE "no"

\* the Object once the body's com_pos and moi are set
ObjectWithBody(o, op, coord_vec, chunks, collider, body) ==
    [o EXCEPT !.op = op, !.coord_vec = coord_vec, !.chunks = chunks, !.collider = collider,
              !.com_pos = body.com_pos, !.moi = body.moi, !.updated = TRUE]

ObjectWithChunks(o, op, coord_vec, chunks, collider) ==
    ObjectWithBody(o, op, coord_vec, chunks, collider,
                   BodyOfMoments(UpdatedSum(chunks, coord_vec)))

\* Object::update_chunk_info
update_chunk_info(o, coord_vec, op) ==
    IF UpdatePanics(o, coord_vec) # "no"
    THEN [o EXCEPT !.op = op, !.coord_vec = coord_vec, !.panic = UpdatePanics(o, coord_vec)]
    ELSE ObjectWithChunks(o, op, coord_vec, UpdatedChunks(o.chunks, coord_vec),
            [k \in DOMAIN o.collider |->
                IF k \in Named(o.chunks, coord_vec)
                THEN Rows(o.chunks[k].grid) ELSE o.collider[k]])

\* Object::new: no chunk yet (load_chunks returns at once, LOAD_TIME has not
\* elapsed), the body of the default RigidBodyInit with an empty Object collider.
\* As history: the last operation, the coord_vec of its update_chunk_info call, the
\* chunks it inserted and removed, whether update_chunk_info returned in it, and the
\* call that panicked in it
Object_new(loader) ==
    [op |-> "new", coord_vec |-> <<>>, loaded |-> {}, unloaded |-> {}, updated |-> FALSE,
     panic |-> "no",
     loader |-> loader, chunks |-> <<>>, collider |-> <<>>,
     com_pos |-> DefaultInit.com_pos, moi |-> DefaultInit.moi]

\* an operation begins: the history of the last one is dropped
Entered(o, op) ==
    [o EXCEPT !.op = op, !.coord_vec = <<>>, !.loaded = {}, !.unloaded = {}, !.updated = FALSE]

\* extend a map by one key
MapInsert(m, key, value) == [k \in DOMAIN m \cup {key} |-> IF k = key THEN value ELSE m[k]]
\* insert value under every key of keys
MapInsertAll(m, keys, value) == [k \in DOMAIN m \cup keys |-> IF k \in keys THEN value ELSE m[k]]
MapRemoveAll(m, keys) == [k \in DOMAIN m \ keys |-> m[k]]

ChunkOf(pos) == <<pos[1] \div CHUNK_SIZE, pos[2] \div CHUNK_SIZE, pos[3] \div CHUNK_SIZE>>
\* my_fmod(pos, CHUNK_SIZE) as u32, for a position with whole coordinates
BlockOf(pos) == <<pos[1] % CHUNK_SIZE, pos[2] % CHUNK_SIZE, pos[3] % CHUNK_SIZE>>

ZeroRows == [k \in 1..(CHUNK_SIZE * CHUNK_SIZE) |-> 0]

\* insert_block up to chunk.update_model: the chunk made if missing, the block set
WithBlock(o, typ, pos) ==
    [o EXCEPT
        !.chunks = MapInsert(o.chunks, ChunkOf(pos),
            [(IF ChunkOf(pos) \in DOMAIN o.chunks THEN o.chunks[ChunkOf(pos)] ELSE Chunk_empty)
                EXCEPT !.grid = IF typ = 0 THEN @ \ {BlockOf(pos)} ELSE @ \cup {BlockOf(pos)}]),
        !.collider = IF ChunkOf(pos) \in DOMAIN o.chunks THEN @
                     ELSE MapInsert(o.collider, ChunkOf(pos), ZeroRows),
        !.loaded = IF ChunkOf(pos) \in DOMAIN o.chunks THEN {} ELSE {ChunkOf(pos)}]

\* chunk.update_model(graphics); self.update_chunk_info(graphics, vec![updated_chunk])
InsertedBlock(o, coord) ==
    IF ModelPanics(o.chunks[coord]) THEN [o EXCEPT !.panic = "update_model"]
    ELSE update_chunk_info(o, <<coord>>, "insert_block")

\* Object::insert_block
insert_block(o, typ, pos) ==
    InsertedBlock(WithBlock(Entered(o, "insert_block"), typ, pos), ChunkOf(pos))

RENDER_DISTANCE == 12

\* `as i32 / CHUNK_SIZE as i32`: the quotient rounded towards zero
TruncDiv(n, d) == IF n >= 0 THEN n \div d ELSE -((-n) \div d)
\* character_chunk, for a body at the origin with identity orientation
CharacterChunk(character_pos) ==
    <<TruncDiv(character_pos[1], CHUNK_SIZE), TruncDiv(character_pos[2], CHUNK_SIZE),
      TruncDiv(character_pos[3], CHUNK_SIZE)>>

\* dx.abs().max(dy.abs()).max(dz.abs())
IAbsMax(dx, dy, dz) ==
    IF IAbs(dx) >= IAbs(dy) /\ IAbs(dx) >= IAbs(dz) THEN IAbs(dx)
    ELSE IF IAbs(dy) >= IAbs(dz) THEN IAbs(dy) ELSE IAbs(dz)
\* the arms 0..8 => 1, 8..12 => 2, _ => 0 of get_detail
DetailOfDist(dist) == IF dist < 8 THEN 1 ELSE IF dist < 12 THEN 2 ELSE 0
get_detail(dx, dy, dz) == DetailOfDist(IAbsMax(dx, dy, dz))
DetailAt(coord, cc) == get_detail(coord[1] - cc[1], coord[2] - cc[2], coord[3] - cc[3])

\* (coord - character_chunk).abs() < RENDER_DISTANCE on each axis
WithinRender(coord, cc) ==
    /\ IAbs(coord[1] - cc[1]) < RENDER_DISTANCE
    /\ IAbs(coord[2] - cc[2]) < RENDER_DISTANCE
    /\ IAbs(coord[3] - cc[3]) < RENDER_DISTANCE

\* dist < (RENDER_DISTANCE * CHUNK_SIZE) * 1.5, for a body at the origin
ShipInReach(character_pos) ==
    character_pos[1] * character_pos[1] + character_pos[2] * character_pos[2]
        + character_pos[3] * character_pos[3]
      < ((RENDER_DISTANCE * CHUNK_SIZE * 3) \div 2) * ((RENDER_DISTANCE * CHUNK_SIZE * 3) \div 2)

\* the OneShot arm of load_chunks
load_one_shot(o, character_pos, cc) ==
    IF o.chunks = <<>>
    THEN IF ShipInReach(character_pos)
         THEN update_chunk_info(
                [o EXCEPT !.chunks = o.loader.chunks,
                          !.collider = MapInsertAll(o.collider, DOMAIN o.loader.chunks, ZeroRows),
                          !.loaded = DOMAIN o.loader.chunks],
                <<>>, "load_chunks")
         ELSE o
    ELSE IF \E k \in DOMAIN o.chunks : WithinRender(k, cc)
         THEN o
         ELSE [o EXCEPT !.chunks = <<>>, !.collider = <<>>, !.unloaded = DOMAIN o.chunks]

\* dx, dy, dz in (-RENDER_DISTANCE)..RENDER_DISTANCE, the upper end excluded
InLoadRange(coord, cc) ==
    /\ coord[1] - cc[1] \in (-RENDER_DISTANCE)..(RENDER_DISTANCE - 1)
    /\ coord[2] - cc[2] \in (-RENDER_DISTANCE)..(RENDER_DISTANCE - 1)
    /\ coord[3] - cc[3] \in (-RENDER_DISTANCE)..(RENDER_DISTANCE - 1)

LexLess(u, v) ==
    \/ u[1] < v[1]
    \/ u[1] = v[1] /\ u[2] < v[2]
    \/ u[1] = v[1] /\ u[2] = v[2] /\ u[3] < v[3]
\* the coordinates of S in the order of the three nested loops
RECURSIVE LoopOrder(_)
LoopOrder(S) ==
    IF S = {} THEN <<>>
    ELSE <<CHOOSE u \in S : \A v \in S \ {u} : LexLess(u, v)>>
            \o LoopOrder(S \ {CHOOSE u \in S : \A v \in S \ {u} : LexLess(u, v)})

\* "Unload old chunks": chunks of detail 0 leave both maps, the others take the
\* detail of their new distance
Unloaded_chunks_only(o, cc, delete_coords) ==
    [o EXCEPT !.chunks = [k \in DOMAIN o.chunks \ delete_coords |->
                            [o.chunks[k] EXCEPT !.detail = DetailAt(k, cc)]],
              !.unloaded = delete_coords]
Unloaded(o, cc, delete_coords) ==
    [o EXCEPT !.chunks = [k \in DOMAIN o.chunks \ delete_coords |->
                            [o.chunks[k] EXCEPT !.detail = DetailAt(k, cc)]],
              !.collider = MapRemoveAll(o.collider, delete_coords),
              !.unloaded = delete_coords]

\* "Load new chunks": every chunk the planet has in the load range and the Object
\* does not hold, with the detail of its offset; then update_chunk_info(new_coords)
Loaded(o, cc, new_coords) ==
    IF new_coords = {} THEN o
    ELSE update_chunk_info(
            [o EXCEPT !.chunks = [k \in DOMAIN o.chunks \cup new_coords |->
                                    IF k \in new_coords
                                    THEN [o.loader.chunks[k] EXCEPT !.detail = DetailAt(k, cc)]
                                    ELSE o.chunks[k]],
                      !.collider = MapInsertAll(o.collider, new_coords, ZeroRows),
                      !.loaded = new_coords],
            LoopOrder(new_coords), "load_chunks")

NewCoords(o, cc) ==
    {k \in DOMAIN o.loader.chunks : InLoadRange(k, cc) /\ k \notin DOMAIN o.chunks}

LoadedAfterUnload(o, cc) == Loaded(o, cc, NewCoords(o, cc))

\* the MultiShot arm of load_chunks
load_multi_shot(o, cc) ==
    LoadedAfterUnload(Unloaded(o, cc, {k \in DOMAIN o.chunks : DetailAt(k, cc) = 0}), cc)

\* Object::load_chunks once LOAD_TIME has elapsed since last_load
load_chunks(o, character_pos) ==
    IF o.loader.kind = "OneShot"
    THEN load_one_shot(Entered(o, "load_chunks"), character_pos, CharacterChunk(character_pos))
    ELSE load_multi_shot(Entered(o, "load_chunks"), CharacterChunk(character_pos))

\* positions of the blocks inserted, in body coordinates
BlockPositions == {<<0, 0, 0>>, <<17, 1, 3>>, <<-1, 0, 0>>}
BlockTypes == {0, 1}
\* chunks as a loader hands them out, moments not yet computed
LoadedChunk(grid) == [Chunk_empty EXCEPT !.grid = grid]
\* what ShipLoader::load_all returns
ShipChunks ==
    { [k \in {<<0, 0, 0>>} |-> LoadedChunk({<<0, 0, 0>>, <<2, 0, 0>>})],
      [k \in {<<0, 0, 0>>, <<1, 0, 0>>} |->
            IF k = <<0, 0, 0>> THEN LoadedChunk({<<1, 1, 1>>}) ELSE LoadedChunk({<<3, 0, 0>>, <<3, 2, 0>>})] }
\* the chunks for which PlanetLoader::load_chunk returns Some
PlanetChunks ==
    { [k \in {<<0, 0, 0>>, <<11, 0, 0>>, <<30, 0, 0>>} |-> LoadedChunk({<<1, 0, 2>>})],
      [k \in {<<0, 0, 0>>, <<-12, 0, 0>>} |-> LoadedChunk({<<0, 3, 0>>})] }
Loaders ==
    {[kind |-> "OneShot", chunks |-> c] : c \in ShipChunks}
        \cup {[kind |-> "MultiShot", chunks |-> c] : c \in PlanetChunks}
\* where the character stands when load_chunks runs
CharacterPositions == {<<0, 0, 0>>, <<-5, 0, 0>>, <<200, 0, 0>>, <<500, 0, 0>>}
\* the coordinate vectors update_chunk_info is called with: all, or one held chunk
CoordVecs(o) == {<<>>} \cup {<<k>> : k \in DOMAIN o.chunks}

LoadChunks ==
    /\ ~panicked
    /\ \E character_pos \in CharacterPositions : object' = load_chunks(object, character_pos)
    /\ panicked' = (object'.panic # "no")
    /\ UNCHANGED <<bodies, collision_pairs, collision_normals, last, ticks, adds, col, cmp, call>>

InsertBlock ==
    /\ ~panicked
    /\ \E typ \in BlockTypes, pos \in BlockPositions : object' = insert_block(object, typ, pos)
    /\ panicked' = (object'.panic # "no")
    /\ UNCHANGED <<bodies, collision_pairs, collision_normals, last, ticks, adds, col, cmp, call>>

UpdateChunkInfo ==
    /\ ~panicked
    /\ \E coord_vec \in CoordVecs(object) :
            object' = update_chunk_info(Entered(object, "update_chunk_info"), coord_vec,
                                        "update_chunk_info")
    /\ panicked' = (object'.panic # "no")
    /\ UNCHANGED <<bodies, collision_pairs, collision_normals, last, ticks, adds, col, cmp, call>>

InitObj ==
    /\ bodies = <<>>
    /\ collision_pairs = <<>>
    /\ collision_normals = <<>>
    /\ panicked = FALSE
    /\ last = NoOp
    /\ ticks = 0
    /\ adds = 0
    /\ col = ColIdle
    /\ cmp = CmpIdle
    /\ call = CallIdle
    /\ \E loader \in Loaders : object = Object_new(loader)

NextObj ==
    \/ LoadChunks
    \/ InsertBlock
    \/ UpdateChunkInfo

SpecObj == InitObj /\ [][NextObj]_vars

\* C18: after update_chunk_info, called with any coord_vec (directly, from
\* load_chunks or from insert_block), the body's com_pos and inertia tensor are
\* those computed from the moments summed over every chunk the Object holds.
C18_BodyFromAllChunks ==
    (object.op \in {"update_chunk_info", "insert_block", "load_chunks"} /\ object.updated) =>
        /\ object.com_pos = BodyOfMoments(SumAll(object.chunks, DOMAIN object.chunks)).com_pos
        /\ object.moi = BodyOfMoments(SumAll(object.chunks, DOMAIN object.chunks)).moi

\* C25: after construction and after every load_chunks (either loader, unloads
\* included), insert_block and update_chunk_info, Object.chunks and the body's
\* Object collider have the same keys, and no unwrap of a chunk or of its collider
\* rows in update_chunk_info has failed
C25_ColliderKeysMatchChunks ==
    /\ DOMAIN object.chunks = DOMAIN object.collider
    /\ object.panic # "unwrap"

\* a MultiShot pass that both unloaded and loaded chunks and then ran
\* update_chunk_info over the loaded ones, on an Object that still holds an older chunk
C25_Witness ==
    /\ object.op = "load_chunks"
    /\ object.loader.kind = "MultiShot"
    /\ object.unloaded # {}
    /\ object.loaded # {}
    /\ object.updated
    /\ DOMAIN object.chunks # object.loaded

\* C26: every chunk a MultiShot load pass has inserted has detail >= 1, and the pass
\* has not handed a chunk of detail 0 to update_model
C26_LoadedChunksHaveDetail ==
    (object.op = "load_chunks" /\ object.loader.kind = "MultiShot") =>
        /\ \A k \in object.loaded : object.chunks[k].detail >= 1
        /\ object.panic # "update_model"


----------------------------------------------------------------------------
(* ticks of a store of three bodies *)

TickInits ==
    { ObjectInit(VZero, Identity, Origin :> Rows(TwoVoxels)),
      RayInit(VHalf(-4, 1, 1), V(5, 0, 0)),
      RayInit(VHalf(1, 1, -2), V(0, 0, 3)),
      RayInit(V(-5, -5, -5), V(1, 0, 0)),
      DefaultInit }

InitTick ==
    /\ \E ia \in TickInits, ib \in TickInits, ic \in TickInits :
          bodies = <<NewData(ia), NewData(ib), NewData(ic)>>
    /\ collision_pairs = <<>>
    /\ collision_normals = <<>>
    /\ panicked = FALSE
    /\ last = NoOp
    /\ ticks = 0
    /\ adds = 0
    /\ col = ColIdle
    /\ cmp = CmpIdle
    /\ call = CallIdle
    /\ object = NoObject

NextTick == \E dt \in DeltaTs : Update(dt)

SpecTick == InitTick /\ [][NextTick]_vars

IsContact(c) == is_some(c.report)

\* C21: in an update that returns, the detector has run exactly once for each
\* unordered pair of distinct bodies; collision_pairs and collision_normals have
\* the same length, the number of runs of this tick that reported a contact; entry
\* k of each is the pair, and the normal, of the k-th such run; so nothing of an
\* earlier tick remains.
C21_PairsMatchContacts ==
    (last.op = "update" /\ ~panicked) =>
        /\ \A i, j \in 1..Len(bodies) :
              Cardinality({n \in 1..Len(last.checks) : last.checks[n].a = i /\ last.checks[n].b = j})
                  = IF i < j THEN 1 ELSE 0
        /\ Len(collision_pairs) = Len(SelectSeq(last.checks, IsContact))
        /\ Len(collision_normals) = Len(SelectSeq(last.checks, IsContact))
        /\ \A k \in 1..Len(collision_pairs) :
              /\ collision_pairs[k] = <<SelectSeq(last.checks, IsContact)[k].a,
                                        SelectSeq(last.checks, IsContact)[k].b>>
              /\ collision_normals[k] = SelectSeq(last.checks, IsContact)[k].report.normal

\* a second tick of three bodies in which two pairs are in contact
C21_Witness ==
    /\ last.op = "update" /\ ~panicked
    /\ ticks = 2
    /\ Len(bodies) = 3
    /\ Len(collision_pairs) = 2
    /\ collision_pairs[1] # collision_pairs[2]

\* a second tick without contact after a first tick that pushed the Object away
C21_WitnessCleared ==
    /\ last.op = "update" /\ ~panicked
    /\ ticks = 2
    /\ collision_pairs = <<>> /\ collision_normals = <<>>
    /\ \E k \in 1..Len(bodies) : bodies[k].collider.type = "Object" /\ bodies[k].pos # VZero

====
